---- MODULE Spec2Model ----
(***************************************************************************)
(* Model of the `duplicate` procedural macro crate: the invocation parser  *)
(* (src/src/parse.rs, src/src/parse_utils.rs), the substitution model and  *)
(* the duplication engine (src/src/substitute.rs), and the module          *)
(* disambiguation (src/src/lib.rs, src/src/module_disambiguation.rs).      *)
(*                                                                         *)
(* A token tree is a record [k, v, s, sp]: kind, text (or delimiter),      *)
(* the nested token sequence of a group, and the span.  Iterators are      *)
(* modelled by the sequence of tokens that remain to be produced.          *)
(***************************************************************************)
EXTENDS Integers, Sequences, FiniteSets, TLC

\* ------------------------------------------------------------------------
\* Bounds of the model
\* ------------------------------------------------------------------------
\* Largest number of substitution groups written in one invocation.
MaxDup == 2
\* The number of tokens given back to a TokenIter with push_front.
MaxPush == 1

\* ------------------------------------------------------------------------
\* Token trees (proc_macro::TokenTree)
\* ------------------------------------------------------------------------
Tok(k, v, s, sp) == [k |-> k, v |-> v, s |-> s, sp |-> sp]

\* Tokens as they are written in the user's source.
Ident(n) == Tok("Ident", n, <<>>, "src")
\* A punctuation with Spacing::Alone.
Punct(c) == Tok("Punct", c, <<>>, "src")
\* A punctuation with Spacing::Joint.
PunctJoint(c) == Tok("PunctJoint", c, <<>>, "src")
Literal(c) == Tok("Literal", c, <<>>, "src")
Group(d, s) == Tok("Group", d, s, "src")

\* Group::new(delimiter, stream): the span is Span::call_site().
GroupNew(d, s) == Tok("Group", d, s, "call_site")
\* Ident::new(name, Span::call_site()).
IdentNew(n) == Tok("Ident", n, <<>>, "call_site")

IsIdent(t) == t.k = "Ident"
IsGroup(t) == t.k = "Group"
IsPunct(t) == t.k \in {"Punct", "PunctJoint"}

\* Concatenation of a sequence of token streams.
RECURSIVE Flatten(_)
Flatten(ss) == IF ss = <<>> THEN <<>> ELSE Head(ss) \o Flatten(Tail(ss))

\* ------------------------------------------------------------------------
\* Results: Ok(value) with the iterator's remaining tokens, or Err(error).
\* "hang" stands for a call that never returns.
\* ------------------------------------------------------------------------
NoErr == [msg |-> "", info |-> <<>>]
Ok(v, rest) == [st |-> "ok", val |-> v, rest |-> rest, err |-> NoErr]
Err(msg, info) ==
    [st |-> "err", val |-> <<>>, rest |-> <<>>, err |-> [msg |-> msg, info |-> info]]
Hang == [st |-> "hang", val |-> <<>>, rest |-> <<>>, err |-> NoErr]
IsOk(r) == r.st = "ok"

\* let v = ..; followed by the code K that uses v.
Bind(v, K(_)) == K(v)

\* ------------------------------------------------------------------------
\* src/src/parse_utils.rs
\* ------------------------------------------------------------------------
punct_is_char(p, c) == p.k = "Punct" /\ p.v = c

is_semicolon(p) == punct_is_char(p, ";")

check_delimiter(group, del) ==
    IF group.v # del
    THEN Err("Unexpected delimiter for group.", <<del>>)
    ELSE Ok(<<>>, <<>>)

\* Does not consume any tokens: rest is the iterator as given.
peek_parse_group(iter, del) ==
    IF iter # <<>>
    THEN IF IsGroup(Head(iter))
         THEN IF IsOk(check_delimiter(Head(iter), del))
              THEN Ok(Head(iter), iter)
              ELSE check_delimiter(Head(iter), del)
         ELSE Err("Not a group.", <<del>>)
    ELSE Err("Unexpected end of macro invocation.", <<del>>)

\* Consumes the group when, and only when, it is returned.
parse_group(iter, del) ==
    Bind(peek_parse_group(iter, del), LAMBDA result :
        IF IsOk(result) THEN Ok(result.val, Tail(iter)) ELSE result)

check_group(tree, del) ==
    IF IsGroup(tree)
    THEN IF IsOk(check_delimiter(tree, del)) THEN Ok(tree, <<>>)
         ELSE check_delimiter(tree, del)
    ELSE Err("Not a group.", <<del>>)

\* The token inside a group without delimiters is returned in its place.
peek_next_token(iter) ==
    IF iter # <<>>
    THEN LET token == Head(iter)
         IN  IF IsGroup(token) /\ token.v = "None"
             THEN LET in_group == token.s
                  IN  IF in_group # <<>>
                      THEN IF Len(in_group) = 1
                           THEN Ok(in_group[1], iter)
                           ELSE IF Len(in_group) = 2 /\ IsPunct(in_group[2])
                                   /\ is_semicolon(in_group[2])
                           THEN Ok(in_group[1], iter)
                           ELSE Err("Encountered none-delimited group with multiple tokens.", <<>>)
                      ELSE Err("Encountered none-delimited group with no tokens.", <<>>)
             ELSE Ok(token, iter)
    ELSE Err("Unexpected end of macro invocation.", <<>>)

next_token(iter) ==
    Bind(peek_next_token(iter), LAMBDA result :
        IF IsOk(result) THEN Ok(result.val, Tail(iter)) ELSE result)

\* Comma-separated identifiers; a trailing comma is accepted.
RECURSIVE extract_argument_list_loop(_, _)
extract_argument_list_loop(arg_iter, result) ==
    IF arg_iter = <<>> THEN Ok(result, <<>>)
    ELSE IF IsIdent(Head(arg_iter))
    THEN IF Tail(arg_iter) # <<>>
         THEN IF IsPunct(arg_iter[2]) /\ punct_is_char(arg_iter[2], ",")
              THEN extract_argument_list_loop(Tail(Tail(arg_iter)),
                                              Append(result, Head(arg_iter).v))
              ELSE Err("Expected ','.", <<>>)
         ELSE Ok(Append(result, Head(arg_iter).v), <<>>)
    ELSE Err("Expected substitution identifier argument as identifier.", <<>>)

extract_argument_list(group) == extract_argument_list_loop(group.s, <<>>)

\* ------------------------------------------------------------------------
\* src/src/substitute.rs: Substitution
\* ------------------------------------------------------------------------
NoSubstitution == [arg_count |-> 0, sub |-> <<>>]
\* SubType::Token(stream), SubType::Argument(idx), SubType::Group(del, subst)
SubToken(stream) ==
    [t |-> "Token", stream |-> stream, idx |-> 0, del |-> "", subst |-> NoSubstitution]
SubArgument(idx) ==
    [t |-> "Argument", stream |-> <<>>, idx |-> idx, del |-> "", subst |-> NoSubstitution]
SubGroup(del, subst) ==
    [t |-> "Group", stream |-> <<>>, idx |-> 0, del |-> del, subst |-> subst]

new_simple(substitution) == [arg_count |-> 0, sub |-> <<SubToken(substitution)>>]

\* find_argument that knows the first parameter only.
find_argument_first(arguments, ident) ==
    IF arguments # <<>> /\ arguments[1] = ident.v THEN 0 ELSE -1

\* arguments.iter().position(|arg| *arg == ident): 0-based, -1 for None.
find_argument(arguments, ident) ==
    IF \E i \in 1..Len(arguments) : arguments[i] = ident.v
    THEN (CHOOSE i \in 1..Len(arguments) :
             /\ arguments[i] = ident.v
             /\ \A j \in 1..(i - 1) : arguments[j] # ident.v) - 1
    ELSE -1

\* saved_tokens.take() pushed as a SubType::Token when it is Some.
PushSaved(substitutions, saved_tokens) ==
    IF saved_tokens.some THEN Append(substitutions, SubToken(saved_tokens.stream))
    ELSE substitutions

NoSaved == [some |-> FALSE, stream |-> <<>>]

RECURSIVE SubstitutionNewLoop(_, _, _, _)
RECURSIVE SubstitutionNew(_, _)
SubstitutionNewLoop(arguments, stream, substitutions, saved_tokens) ==
    IF stream = <<>> THEN PushSaved(substitutions, saved_tokens)
    ELSE LET token == Head(stream)
         IN  IF IsIdent(token) /\ find_argument(arguments, token) >= 0
             THEN SubstitutionNewLoop(arguments, Tail(stream),
                      Append(PushSaved(substitutions, saved_tokens),
                             SubArgument(find_argument(arguments, token))),
                      NoSaved)
             ELSE IF IsGroup(token)
             THEN SubstitutionNewLoop(arguments, Tail(stream),
                      Append(PushSaved(substitutions, saved_tokens),
                             SubGroup(token.v, SubstitutionNew(arguments, token.s))),
                      NoSaved)
             ELSE SubstitutionNewLoop(arguments, Tail(stream), substitutions,
                      [some |-> TRUE, stream |-> Append(saved_tokens.stream, token)])

SubstitutionNew(arguments, stream) ==
    [arg_count |-> Len(arguments),
     sub |-> SubstitutionNewLoop(arguments, stream, <<>>, NoSaved)]

\* The message names the expected and the given number of arguments.
ArityError(expected, got) ==
    Err("Expected {} substitution arguments but got {}", <<expected, got>>)

\* ApplyArityOk that lets more arguments than parameters through.
ApplyArityAtLeast(subst, arguments) == Len(arguments) >= subst.arg_count

\* arguments.len() == self.arg_count
ApplyArityOk(subst, arguments) == Len(arguments) = subst.arg_count

RECURSIVE apply(_, _)
RECURSIVE ApplyParts(_, _, _)
ApplyParts(sub, arguments, i) ==
    IF i > Len(sub) THEN Ok(<<>>, <<>>)
    ELSE LET part == sub[i]
             here == IF part.t = "Token" THEN Ok(part.stream, <<>>)
                     ELSE IF part.t = "Argument" THEN Ok(arguments[part.idx + 1], <<>>)
                     ELSE LET inner == apply(part.subst, arguments)
                          IN  IF IsOk(inner)
                              THEN Ok(<<GroupNew(part.del, inner.val)>>, <<>>)
                              ELSE inner
         IN  IF ~IsOk(here) THEN here
             ELSE LET after == ApplyParts(sub, arguments, i + 1)
                  IN  IF IsOk(after) THEN Ok(here.val \o after.val, <<>>) ELSE after

apply(subst, arguments) ==
    IF ApplyArityOk(subst, arguments)
    THEN ApplyParts(subst.sub, arguments, 1)
    ELSE ArityError(subst.arg_count, Len(arguments))

apply_simple(subst) == apply(subst, <<>>)

\* Some(ident) when the substitution is exactly one identifier token.
substitutes_identifier(subst) ==
    IF Len(subst.sub) = 1 /\ subst.sub[1].t = "Token"
       /\ Len(subst.sub[1].stream) = 1 /\ IsIdent(subst.sub[1].stream[1])
    THEN [some |-> TRUE, ident |-> subst.sub[1].stream[1].v]
    ELSE [some |-> FALSE, ident |-> ""]

argument_count(subst) == subst.arg_count

\* ------------------------------------------------------------------------
\* src/src/lib.rs: SubstitutionGroup
\* ------------------------------------------------------------------------
\* substitutions: the map; identifier_order: the order of insertion.
SubstitutionGroupNew == [substitutions |-> <<>>, identifier_order |-> <<>>]

\* The map is kept as a sequence of [name, subst] entries with unique names.
HasKey(group, name) ==
    \E i \in 1..Len(group.substitutions) : group.substitutions[i].name = name

\* substitution_of that gives the substitution inserted first, whatever the name.
SubstitutionOfFirst(group, name) == group.substitutions[1].subst

\* Option<&Substitution>: used only under HasKey.
substitution_of(group, name) ==
    (CHOOSE e \in {group.substitutions[i] : i \in 1..Len(group.substitutions)} :
        e.name = name).subst

\* HashMap::insert replaces a present entry and returns it, which is an error.
add_substitution(group, ident, subst) ==
    IF HasKey(group, ident.v)
    THEN Err("Substitution identifier assigned mutiple substitutions", <<ident.v>>)
    ELSE Ok([substitutions |->
                 Append(group.substitutions, [name |-> ident.v, subst |-> subst]),
             identifier_order |-> Append(group.identifier_order, ident.v)], <<>>)

identifiers(group) ==
    {group.substitutions[i].name : i \in 1..Len(group.substitutions)}

identifiers_with_args(group) ==
    {<<ident, argument_count(substitution_of(group, ident))>> : ident \in identifiers(group)}

identifiers_ordered(group) == group.identifier_order

\* ------------------------------------------------------------------------
\* Names: heck's to_snake_case and string concatenation over the vocabulary
\* ------------------------------------------------------------------------
\* to_snake_case of the identifiers of the vocabulary.
to_snake_case(n) ==
    CASE n = "X" -> "x"
      [] n = "Y" -> "y"
      [] n = "Alpha" -> "alpha"
      [] n = "Beta" -> "beta"
      [] OTHER -> n

\* mod_name.to_string() + "_" + &postfix
PostfixName(mod_name, postfix) ==
    CASE mod_name = "m" /\ postfix = "x" -> "m_x"
      [] mod_name = "m" /\ postfix = "y" -> "m_y"
      [] mod_name = "m" /\ postfix = "alpha" -> "m_alpha"
      [] mod_name = "m" /\ postfix = "beta" -> "m_beta"
      [] OTHER -> "m_other"

\* ------------------------------------------------------------------------
\* src/src/lib.rs, src/src/module_disambiguation.rs: module disambiguation
\* ------------------------------------------------------------------------
NoModule == [some |-> FALSE, ident |-> "", postfix |-> ""]

\* Some(name) when the item is `mod` name `{..}` followed by anything.
get_module_name(item) ==
    IF /\ Len(item) >= 3
       /\ IsIdent(item[1]) /\ item[1].v = "mod"
       /\ IsIdent(item[2])
       /\ IsGroup(item[3]) /\ item[3].v = "Brace"
    THEN [some |-> TRUE, ident |-> item[2].v]
    ELSE [some |-> FALSE, ident |-> ""]

\* Whether every group's substitution for ident is a single identifier;
\* "panic" when a group has no substitution for it (unwrap on None).
RECURSIVE FindSimpleInner(_, _, _)
FindSimpleInner(substitutions, ident, g) ==
    IF g > Len(substitutions) THEN "all"
    ELSE IF ~HasKey(substitutions[g], ident) THEN "panic"
    ELSE IF ~substitutes_identifier(substitution_of(substitutions[g], ident)).some
    THEN "continue"
    ELSE FindSimpleInner(substitutions, ident, g + 1)

RECURSIVE FindSimpleOuter(_, _)
FindSimpleOuter(substitutions, i) ==
    LET order == identifiers_ordered(substitutions[1])
    IN  IF i > Len(order)
        THEN Err("Was unable to find a suitable substitution identifier to postfix on the module's name.", <<>>)
        ELSE LET inner == FindSimpleInner(substitutions, order[i], 1)
             IN  IF inner = "all" THEN Ok(order[i], <<>>)
                 ELSE IF inner = "panic"
                 THEN Err("panicked: called Option::unwrap on a None value", <<order[i]>>)
                 ELSE FindSimpleOuter(substitutions, i + 1)

find_simple(substitutions) ==
    IF substitutions = <<>> THEN Ok("", <<>>)
    ELSE FindSimpleOuter(substitutions, 1)

\* disambiguate_module that does not look for a substitution of the name.
DisambiguateModuleAlways(item, sub_groups, feat) ==
    IF sub_groups # <<>> /\ get_module_name(item).some
    THEN IF ~feat
         THEN Err("Duplicating the module without giving each duplicate a unique name.",
                  <<get_module_name(item).ident>>)
         ELSE Bind(find_simple(sub_groups), LAMBDA simple :
                  IF IsOk(simple)
                  THEN Ok([some |-> TRUE, ident |-> get_module_name(item).ident,
                           postfix |-> simple.val], <<>>)
                  ELSE simple)
    ELSE Ok(NoModule, <<>>)

\* feat: whether the crate is built with the module_disambiguation feature.
disambiguate_module(item, sub_groups, feat) ==
    LET module == get_module_name(item)
    IN  IF /\ sub_groups # <<>>
           /\ module.some
           /\ ~HasKey(sub_groups[1], module.ident)
        THEN IF ~feat
             THEN Err("Duplicating the module without giving each duplicate a unique name.",
                      <<module.ident>>)
             ELSE Bind(find_simple(sub_groups), LAMBDA simple :
                      IF IsOk(simple)
                      THEN Ok([some |-> TRUE, ident |-> module.ident,
                               postfix |-> simple.val], <<>>)
                      ELSE simple)
        ELSE Ok(NoModule, <<>>)

\* try_substitute_mod that leaves the old name in the iterator.
TrySubstituteModKeepsName(mod_and_postfix_sub, substitutions, item_iter) ==
    IF /\ mod_and_postfix_sub.some
       /\ item_iter # <<>>
       /\ IsIdent(Head(item_iter)) /\ Head(item_iter).v = "mod"
       /\ Len(item_iter) >= 2
       /\ HasKey(substitutions, mod_and_postfix_sub.postfix)
       /\ substitutes_identifier(substitution_of(substitutions, mod_and_postfix_sub.postfix)).some
    THEN Ok(<<Head(item_iter),
              Tok("Ident",
                  PostfixName(mod_and_postfix_sub.ident,
                              to_snake_case(substitutes_identifier(
                                  substitution_of(substitutions,
                                                  mod_and_postfix_sub.postfix)).ident)),
                  <<>>, item_iter[2].sp)>>,
            Tail(item_iter))
    ELSE Ok(<<>>, item_iter)

\* Returns the tokens `mod` and the new name and the iterator after the old
\* name, or no tokens and the iterator as it was.
try_substitute_mod(mod_and_postfix_sub, substitutions, item_iter) ==
    IF /\ mod_and_postfix_sub.some
       /\ item_iter # <<>>
       /\ IsIdent(Head(item_iter)) /\ Head(item_iter).v = "mod"
    THEN IF Len(item_iter) < 2 \/ ~HasKey(substitutions, mod_and_postfix_sub.postfix)
         THEN Err("panicked: called Option::unwrap on a None value", <<>>)
         ELSE LET sub_ident ==
                      substitutes_identifier(
                          substitution_of(substitutions, mod_and_postfix_sub.postfix))
              IN  IF ~sub_ident.some
                  THEN Err("panicked: called Option::unwrap on a None value", <<>>)
                  ELSE Ok(<<Head(item_iter),
                            Tok("Ident",
                                PostfixName(mod_and_postfix_sub.ident,
                                            to_snake_case(sub_ident.ident)),
                                <<>>, item_iter[2].sp)>>,
                          Tail(Tail(item_iter)))
    ELSE Ok(<<>>, item_iter)

\* ------------------------------------------------------------------------
\* src/src/substitute.rs: the duplication engine
\* ------------------------------------------------------------------------
NoStream == [some |-> FALSE, stream |-> <<>>]
SomeStream(stream) == [some |-> TRUE, stream |-> stream]

\* PassGroup with every pass taking the first group.
PassGroupFirst(sub_groups, n) ==
    IF sub_groups = <<>> THEN SubstitutionGroupNew ELSE sub_groups[1]

\* The substitution group of the n-th pass: the first pass takes
\* sub_groups.next().unwrap_or(&empty_sub), the others the remaining groups.
PassGroup(sub_groups, n) ==
    IF n = 1
    THEN IF sub_groups = <<>> THEN SubstitutionGroupNew ELSE sub_groups[1]
    ELSE sub_groups[n]

\* PassCount with no pass when there is no group.
PassCountOfGroups(sub_groups) == Len(sub_groups)

\* The number of passes: always at least one duplicate.
PassCount(sub_groups) == IF sub_groups = <<>> THEN 1 ELSE Len(sub_groups)

\* Rewrap with one more group around the rewritten group.
RewrapNested(del, substituted) == <<GroupNew(del, <<GroupNew(del, substituted)>>)>>

\* Rewrap with the delimiter of the group lost.
RewrapParenthesis(del, substituted) == <<GroupNew("Parenthesis", substituted)>>

\* A rewritten group: Group::new(group.delimiter(), substituted).
Rewrap(del, substituted) == <<GroupNew(del, substituted)>>

\* ArgumentGroups with the argument duplicated twice.
ArgumentGroupsTwice(substitutions) == <<substitutions, substitutions>>

\* The groups an argument of a parameterized identifier is duplicated with:
\* Some(substitutions).into_iter().
ArgumentGroups(substitutions) == <<substitutions>>

\* Which of the two lookups decides: "one" gives the substitution found.
LookupCase(substitutions, global_subs, name) ==
    IF HasKey(substitutions, name) /\ HasKey(global_subs, name) THEN "both"
    ELSE IF HasKey(substitutions, name) \/ HasKey(global_subs, name) THEN "one"
    ELSE "none"

LookupSubst(substitutions, global_subs, name) ==
    IF HasKey(substitutions, name) THEN substitution_of(substitutions, name)
    ELSE substitution_of(global_subs, name)

RECURSIVE substitute_next_token(_, _, _, _)
RECURSIVE SubstituteGroupLoop(_, _, _, _, _)
RECURSIVE SubstituteArgsLoop(_, _, _, _, _)
RECURSIVE duplicate_and_substitute_one(_, _, _, _, _, _, _)
RECURSIVE DuplicateLoop(_, _, _, _, _, _, _)
RECURSIVE duplicate_and_substitute(_, _, _, _)

\* The loop over the bracketed arguments inside the parentheses of a use.
SubstituteArgsLoop(group_stream_iter, args, global_subs, substitutions, feat) ==
    Bind(parse_group(group_stream_iter, "Bracket"), LAMBDA parsed :
        IF IsOk(parsed)
        THEN Bind(duplicate_and_substitute(parsed.val.s, global_subs,
                                           ArgumentGroups(substitutions), feat),
                  LAMBDA arg :
                      IF ~IsOk(arg) THEN arg
                      ELSE IF parsed.rest # <<>> /\ IsPunct(Head(parsed.rest))
                              /\ punct_is_char(Head(parsed.rest), ",")
                      THEN SubstituteArgsLoop(Tail(parsed.rest), Append(args, arg.val),
                                              global_subs, substitutions, feat)
                      ELSE IF parsed.rest # <<>> THEN Err("Expected ','", <<>>)
                      ELSE SubstituteArgsLoop(parsed.rest, Append(args, arg.val),
                                              global_subs, substitutions, feat))
        ELSE IF group_stream_iter # <<>> THEN parsed
        ELSE Ok(args, <<>>))

\* while let Some(stream) = substitute_next_token(&mut group_iter, ..)?
SubstituteGroupLoop(group_iter, substituted, global_subs, substitutions, feat) ==
    Bind(substitute_next_token(group_iter, global_subs, substitutions, feat),
         LAMBDA next :
             IF ~IsOk(next) THEN next
             ELSE IF next.val.some
             THEN SubstituteGroupLoop(next.rest, substituted \o next.val.stream,
                                      global_subs, substitutions, feat)
             ELSE Ok(substituted, <<>>))

\* An identifier with one substitution and parameters: the arguments in the
\* parentheses after it are duplicated and the substitution applied to them.
SubstituteWithArguments(subst, rest, global_subs, substitutions, feat) ==
    Bind(parse_group(rest, "Parenthesis"), LAMBDA group :
        IF ~IsOk(group) THEN group
        ELSE Bind(SubstituteArgsLoop(group.val.s, <<>>, global_subs, substitutions, feat),
                  LAMBDA args :
                      IF ~IsOk(args) THEN args
                      ELSE Bind(apply(subst, args.val), LAMBDA stream :
                               IF ~IsOk(stream) THEN stream
                               ELSE Ok(SomeStream(stream.val), group.rest))))

\* An identifier with one substitution.
SubstituteIdent(subst, rest, global_subs, substitutions, feat) ==
    IF subst.arg_count > 0
    THEN SubstituteWithArguments(subst, rest, global_subs, substitutions, feat)
    ELSE Bind(apply_simple(subst), LAMBDA stream :
             IF ~IsOk(stream) THEN stream ELSE Ok(SomeStream(stream.val), rest))

substitute_next_token(tree, global_subs, substitutions, feat) ==
    IF tree = <<>> THEN Ok(NoStream, tree)
    ELSE IF IsIdent(Head(tree))
    THEN Bind(LookupCase(substitutions, global_subs, Head(tree).v), LAMBDA case :
             IF case = "one"
             THEN SubstituteIdent(LookupSubst(substitutions, global_subs, Head(tree).v),
                                  Tail(tree), global_subs, substitutions, feat)
             ELSE IF case = "none" THEN Ok(SomeStream(<<Head(tree)>>), Tail(tree))
             ELSE Err("Multiple substitutions for identifier", <<Head(tree).v>>))
    ELSE IF IsGroup(Head(tree))
    THEN Bind(SubstituteGroupLoop(Head(tree).s, <<>>, global_subs, substitutions, feat),
              LAMBDA substituted :
                  IF ~IsOk(substituted) THEN substituted
                  ELSE Ok(SomeStream(Rewrap(Head(tree).v, substituted.val)), Tail(tree)))
    ELSE Ok(SomeStream(<<Head(tree)>>), Tail(tree))

\* The module name is substituted at most once in a duplicate, and only in a
\* build with the module_disambiguation feature.
SubstituteMod(item_iter, substituted_mod, substitutions, mod_and_postfix_sub, feat) ==
    IF feat /\ ~substituted_mod
    THEN try_substitute_mod(mod_and_postfix_sub, substitutions, item_iter)
    ELSE Ok(<<>>, item_iter)

\* One duplicate: the closure duplicate_and_substitute_one, from the loop's
\* state (item_iter, substituted_mod, result) on.
duplicate_and_substitute_one(item_iter, substituted_mod, result, global_subs, substitutions, mod_and_postfix_sub, feat) ==
    Bind(SubstituteMod(item_iter, substituted_mod, substitutions, mod_and_postfix_sub,
                       feat),
         LAMBDA mod :
             IF ~IsOk(mod) THEN mod
             ELSE Bind(substitute_next_token(mod.rest, global_subs, substitutions, feat),
                       LAMBDA next :
                           IF ~IsOk(next) THEN next
                           ELSE IF next.val.some
                           THEN duplicate_and_substitute_one(next.rest,
                                    substituted_mod \/ mod.val # <<>>,
                                    result \o mod.val \o next.val.stream,
                                    global_subs, substitutions, mod_and_postfix_sub,
                                    feat)
                           ELSE Ok(result \o mod.val, <<>>)))

\* The tokens one duplicate adds to the result.
DuplicateOne(item, global_subs, substitutions, mod_and_postfix_sub, feat) ==
    duplicate_and_substitute_one(item, FALSE, <<>>, global_subs, substitutions,
                                 mod_and_postfix_sub, feat)

DuplicateLoop(item, global_subs, sub_groups, mod_and_postfix_sub, feat, n, result) ==
    IF n > PassCount(sub_groups) THEN Ok(result, <<>>)
    ELSE Bind(DuplicateOne(item, global_subs, PassGroup(sub_groups, n),
                           mod_and_postfix_sub, feat),
              LAMBDA one :
                  IF ~IsOk(one) THEN one
                  ELSE DuplicateLoop(item, global_subs, sub_groups, mod_and_postfix_sub,
                                     feat, n + 1, result \o one.val))

duplicate_and_substitute(item, global_subs, sub_groups, feat) ==
    Bind(disambiguate_module(item, sub_groups, feat), LAMBDA mod_and_postfix_sub :
        IF ~IsOk(mod_and_postfix_sub) THEN mod_and_postfix_sub
        ELSE DuplicateLoop(item, global_subs, sub_groups, mod_and_postfix_sub.val,
                           feat, 1, <<>>))

\* ------------------------------------------------------------------------
\* src/src/parse.rs: the invocation parser
\* ------------------------------------------------------------------------
\* '#' starts a nested invocation of the macro.
is_nested_invocation(p) == punct_is_char(p, "#")

NoGroup == [some |-> FALSE, group |-> Group("None", <<>>)]
SomeGroup(g) == [some |-> TRUE, group |-> g]

\* (ident, Ok(substitution)) and (ident, Err(group)).
InlineOk(ident, subst) ==
    [ident |-> ident, ok |-> TRUE, subst |-> subst, group |-> NoGroup]
InlineErr(ident, group) ==
    [ident |-> ident, ok |-> FALSE, subst |-> NoSubstitution, group |-> group]

\* The substitution after the identifier and its parameter list.
InlineWithArguments(ident, params, after) ==
    Bind(parse_group(Tail(after), "Bracket"), LAMBDA sub :
        IF IsOk(sub)
        THEN Bind(extract_argument_list(params), LAMBDA args :
                 IF IsOk(args)
                 THEN Ok(InlineOk(ident, SubstitutionNew(args.val, sub.val.s)), sub.rest)
                 ELSE Ok(InlineErr(ident, SomeGroup(params)), sub.rest))
        ELSE Ok(InlineErr(ident, SomeGroup(params)), Tail(after)))

\* The substitution after the identifier.
InlineSimple(ident, after) ==
    Bind(parse_group(after, "Bracket"), LAMBDA sub :
        IF IsOk(sub)
        THEN Ok(InlineOk(ident, new_simple(sub.val.s)), sub.rest)
        ELSE Ok(InlineErr(ident, NoGroup), after))

extract_inline_substitution(stream) ==
    Bind(peek_next_token(stream), LAMBDA token :
        IF ~IsOk(token) THEN token
        ELSE IF IsIdent(token.val)
        THEN Bind(peek_parse_group(Tail(stream), "Parenthesis"), LAMBDA group_1 :
                 IF IsOk(group_1)
                 THEN InlineWithArguments(token.val, group_1.val, Tail(stream))
                 ELSE InlineSimple(token.val, Tail(stream)))
        ELSE Err("Expected substitution identifier.", <<>>))

NoExtra == [some |-> FALSE, ident |-> Ident(""), group |-> NoGroup]

\* val: the global group and the identifier (and group) taken too far.
RECURSIVE validate_global_substitutions_loop(_, _)
validate_global_substitutions_loop(iter, sub_group) ==
    Bind(extract_inline_substitution(iter), LAMBDA inline :
        IF IsOk(inline) /\ inline.val.ok
        THEN Bind(add_substitution(sub_group, inline.val.ident, inline.val.subst),
                  LAMBDA added :
                      IF ~IsOk(added) THEN added
                      ELSE IF inline.rest # <<>> /\ IsPunct(Head(inline.rest))
                              /\ is_semicolon(Head(inline.rest))
                      THEN validate_global_substitutions_loop(Tail(inline.rest), added.val)
                      ELSE IF inline.rest # <<>> THEN Err("Expected ';'.", <<>>)
                      ELSE Ok([sub_group |-> added.val, extra |-> NoExtra], inline.rest))
        ELSE IF IsOk(inline)
        THEN Ok([sub_group |-> sub_group,
                 extra |-> [some |-> TRUE, ident |-> inline.val.ident,
                            group |-> inline.val.group]], inline.rest)
        ELSE Ok([sub_group |-> sub_group, extra |-> NoExtra], iter))

validate_global_substitutions(iter) ==
    validate_global_substitutions_loop(iter, SubstitutionGroupNew)

\* Peeks with the iterator itself: a group without delimiters is not opened.
validate_short_get_identifier_arguments(iter) ==
    IF iter # <<>> /\ IsGroup(Head(iter))
       /\ IsOk(check_delimiter(Head(iter), "Parenthesis"))
    THEN Bind(extract_argument_list(Head(iter)), LAMBDA result :
             IF IsOk(result) THEN Ok(result.val, Tail(iter)) ELSE result)
    ELSE Ok(<<>>, iter)

\* result: the (identifier, arguments) pairs in the order of declaration.
RECURSIVE validate_short_get_identifiers_loop(_, _)
validate_short_get_identifiers_loop(iter, result) ==
    Bind(next_token(iter), LAMBDA next :
        IF ~IsOk(next) THEN next
        ELSE IF IsIdent(next.val)
        THEN Bind(validate_short_get_identifier_arguments(next.rest), LAMBDA args :
                 IF ~IsOk(args) THEN args
                 ELSE validate_short_get_identifiers_loop(args.rest,
                          Append(result, [ident |-> next.val.v, args |-> args.val,
                                          subs |-> <<>>])))
        ELSE IF IsPunct(next.val) /\ is_semicolon(next.val)
        THEN Ok(result, next.rest)
        ELSE Err("Expected substitution identifier or ';'.", <<>>))

validate_short_get_identifiers(iter) == validate_short_get_identifiers_loop(iter, <<>>)

\* ShortGroupCount that asks for the group of the first identifier only.
ShortGroupCountFirst(result) == 1

\* for stream in groups: one bracket group for each declared identifier.
ShortGroupCount(result) == Len(result)

\* The bracket groups after the first one, one for each further identifier.
RECURSIVE ShortRestOfGroup(_, _, _)
ShortRestOfGroup(iter, result, i) ==
    IF i > ShortGroupCount(result) THEN Ok(result, iter)
    ELSE Bind(parse_group(iter, "Bracket"), LAMBDA group :
             IF ~IsOk(group) THEN group
             ELSE ShortRestOfGroup(group.rest,
                      [result EXCEPT ![i].subs = Append(@, group.val.s)], i + 1))

validate_short_get_substitutions(iter, result) ==
    IF iter # <<>>
    THEN Bind(check_group(Head(iter), "Bracket"), LAMBDA group :
             IF ~IsOk(group) THEN group
             ELSE IF result = <<>>
             THEN Err("panicked: called Option::unwrap on a None value", <<>>)
             ELSE ShortRestOfGroup(Tail(iter),
                      [result EXCEPT ![1].subs = Append(@, group.val.s)], 2))
    ELSE Ok(result, iter)

RECURSIVE parse_invocation(_, _)
RECURSIVE invoke_nested(_, _)
RECURSIVE validate_short_get_all_substitution_goups(_, _, _)
RECURSIVE validate_verbose_invocation(_, _, _)
RECURSIVE validate_verbose_invocation_loop(_, _, _, _)

\* A punctuation that does not start a nested invocation is looked at again
\* and again without being consumed.
validate_short_get_all_substitution_goups(iter, result, feat) ==
    IF iter # <<>> /\ IsPunct(Head(iter))
    THEN IF is_nested_invocation(Head(iter))
         THEN Bind(invoke_nested(Tail(iter), feat), LAMBDA nested_duplicated :
                  IF ~IsOk(nested_duplicated) THEN nested_duplicated
                  ELSE Bind(validate_short_get_all_substitution_goups(
                                nested_duplicated.val, result, feat),
                            LAMBDA nested :
                                IF ~IsOk(nested) THEN nested
                                ELSE validate_short_get_all_substitution_goups(
                                         nested_duplicated.rest, nested.val, feat)))
         ELSE Hang
    ELSE Bind(validate_short_get_substitutions(iter, result), LAMBDA subs :
             IF ~IsOk(subs) THEN subs
             ELSE IF subs.rest # <<>>
             THEN IF IsPunct(Head(subs.rest)) /\ is_semicolon(Head(subs.rest))
                  THEN validate_short_get_all_substitution_goups(
                           Tail(subs.rest), subs.val, feat)
                  ELSE Err("Expected ';'.", <<>>)
             ELSE Ok(subs.val, <<>>))

validate_short_attr(iter, feat) ==
    Bind(validate_short_get_identifiers(iter), LAMBDA idents :
        IF ~IsOk(idents) THEN idents
        ELSE validate_short_get_all_substitution_goups(idents.rest, idents.val, feat))

\* identifiers_with_args of the group is compared with the set of the first
\* group by HashSet::difference: what the group has and `existing` lacks.
VerboseDiff(substitutions, existing) ==
    identifiers_with_args(substitutions) \ existing.ids

NoIds == [some |-> FALSE, ids |-> {}]

RECURSIVE extract_verbose_substitutions_loop(_, _, _)
extract_verbose_substitutions_loop(stream, substitutions, existing) ==
    Bind(extract_inline_substitution(stream), LAMBDA inline :
        IF IsOk(inline) /\ inline.val.ok
        THEN Bind(add_substitution(substitutions, inline.val.ident, inline.val.subst),
                  LAMBDA added :
                      IF ~IsOk(added) THEN added
                      ELSE extract_verbose_substitutions_loop(inline.rest, added.val,
                                                              existing))
        ELSE IF existing.some
        THEN Bind(VerboseDiff(substitutions, existing), LAMBDA diff :
                 IF diff # {}
                 THEN Err("Invalid substitutions. The following identifiers were not found in previous substitution groups or had different arguments:",
                          diff)
                 ELSE Ok(substitutions, <<>>))
        ELSE Ok(substitutions, <<>>))

extract_verbose_substitutions(tree, existing) ==
    Bind(check_group(tree, "Bracket"), LAMBDA group :
        IF ~IsOk(group) THEN group
        ELSE IF Len(group.val.s) = 0 THEN Err("No substitution groups found.", <<>>)
        ELSE extract_verbose_substitutions_loop(group.val.s, SubstitutionGroupNew,
                                                existing))

\* substitution_ids.get_or_insert_with: set from the first group pushed.
SubstitutionIds(substitution_ids, sub_groups) ==
    IF substitution_ids.some THEN substitution_ids
    ELSE [some |-> TRUE, ids |-> identifiers_with_args(sub_groups[1])]

validate_verbose_invocation_loop(iter, sub_groups, substitution_ids, feat) ==
    Bind(next_token(iter), LAMBDA tree :
        IF ~IsOk(tree) THEN Ok(sub_groups, iter)
        ELSE IF IsPunct(tree.val) /\ is_nested_invocation(tree.val)
        THEN Bind(invoke_nested(tree.rest, feat), LAMBDA nested_duplicated :
                 IF ~IsOk(nested_duplicated) THEN nested_duplicated
                 ELSE Bind(validate_verbose_invocation(nested_duplicated.val, TRUE, feat),
                           LAMBDA subs :
                               IF ~IsOk(subs) THEN subs
                               ELSE validate_verbose_invocation_loop(
                                        nested_duplicated.rest, sub_groups \o subs.val,
                                        substitution_ids, feat)))
        ELSE Bind(extract_verbose_substitutions(tree.val, substitution_ids), LAMBDA group :
                 IF ~IsOk(group) THEN group
                 ELSE validate_verbose_invocation_loop(tree.rest,
                          Append(sub_groups, group.val),
                          SubstitutionIds(substitution_ids, Append(sub_groups, group.val)),
                          feat)))

validate_verbose_invocation(iter, err_on_no_subs, feat) ==
    IF err_on_no_subs /\ iter = <<>> THEN Err("No substitutions found.", <<>>)
    ELSE validate_verbose_invocation_loop(iter, <<>>, NoIds, feat)

invoke_nested(iter, feat) ==
    Bind(parse_group(iter, "Bracket"), LAMBDA nested_attr :
        IF ~IsOk(nested_attr) THEN nested_attr
        ELSE Bind(parse_invocation(nested_attr.val.s, feat), LAMBDA nested_dup_def :
                 IF ~IsOk(nested_dup_def) THEN nested_dup_def
                 ELSE Bind(parse_group(nested_attr.rest, "Bracket"), LAMBDA nested_item :
                          IF ~IsOk(nested_item) THEN nested_item
                          ELSE Bind(duplicate_and_substitute(nested_item.val.s,
                                        nested_dup_def.val.global_substitutions,
                                        nested_dup_def.val.duplications, feat),
                                    LAMBDA dup :
                                        IF ~IsOk(dup) THEN dup
                                        ELSE Ok(dup.val, nested_item.rest)))))

\* ShortSubstitution that takes the substitutions from the last one back.
ShortSubstitutionReversed(entry, idx) == entry.subs[Len(entry.subs) - idx + 1]

\* subs.into_iter().enumerate(): the idx-th substitution of the identifier.
ShortSubstitution(entry, idx) == entry.subs[idx]

\* reorder[idx] gets the idx-th substitution of every identifier.
RECURSIVE ReorderIdent(_, _, _)
ReorderIdent(reorder, entry, idx) ==
    IF idx > Len(entry.subs) THEN Ok(reorder, <<>>)
    ELSE IF idx > Len(reorder) THEN Err("panicked: index out of bounds", <<>>)
    ELSE Bind(add_substitution(reorder[idx], IdentNew(entry.ident),
                               SubstitutionNew(entry.args, ShortSubstitution(entry, idx))),
              LAMBDA added :
                  IF ~IsOk(added) THEN added
                  ELSE ReorderIdent([reorder EXCEPT ![idx] = added.val], entry, idx + 1))

RECURSIVE Reorder(_, _, _)
Reorder(reorder, substitutions, i) ==
    IF i > Len(substitutions) THEN Ok(reorder, <<>>)
    ELSE Bind(ReorderIdent(reorder, substitutions[i], 1), LAMBDA one :
             IF ~IsOk(one) THEN one ELSE Reorder(one.val, substitutions, i + 1))

DuplicationDefinition(global_substitutions, duplications) ==
    [global_substitutions |-> global_substitutions, duplications |-> duplications]

\* The tokens the short syntax is parsed from: the identifier and the group
\* taken by the global substitutions, then the rest.
ShortChain(extra, iter) ==
    <<extra.ident>> \o (IF extra.group.some THEN <<extra.group.group>> ELSE <<>>) \o iter

\* The verbose syntax after the global substitutions.
ParseVerboseDefinition(globals, feat) ==
    Bind(validate_verbose_invocation(globals.rest,
                                     globals.val.sub_group.substitutions = <<>>, feat),
         LAMBDA dups :
             IF ~IsOk(dups) THEN dups
             ELSE Ok(DuplicationDefinition(globals.val.sub_group, dups.val), <<>>))

\* The short syntax after the global substitutions, its substitutions
\* reordered from one entry for each identifier to one group for each duplicate.
ParseShortDefinition(globals, feat) ==
    Bind(validate_short_attr(ShortChain(globals.val.extra, globals.rest), feat),
         LAMBDA substitutions :
             IF ~IsOk(substitutions) THEN substitutions
             ELSE Bind(Reorder([i \in 1..Len(substitutions.val[1].subs) |->
                                   SubstitutionGroupNew],
                               substitutions.val, 1),
                       LAMBDA reorder :
                           IF ~IsOk(reorder) THEN reorder
                           ELSE Ok(DuplicationDefinition(globals.val.sub_group,
                                                         reorder.val), <<>>)))

parse_invocation(attr, feat) ==
    Bind(validate_global_substitutions(attr), LAMBDA globals :
        IF ~IsOk(globals) THEN globals
        ELSE IF ~globals.val.extra.some THEN ParseVerboseDefinition(globals, feat)
        ELSE ParseShortDefinition(globals, feat))

\* ------------------------------------------------------------------------
\* src/src/lib.rs: duplicate_impl
\* ------------------------------------------------------------------------
duplicate_impl(attr, item, feat) ==
    Bind(parse_invocation(attr, feat), LAMBDA dup_def :
        IF ~IsOk(dup_def) THEN dup_def
        ELSE duplicate_and_substitute(item, dup_def.val.global_substitutions,
                                      dup_def.val.duplications, feat))

\* ------------------------------------------------------------------------
\* src/src/token_iter.rs: TokenIter, and inline_macro_impl of src/src/lib.rs
\* ------------------------------------------------------------------------
\* Token::Simple(t) and Token::Group(delimiter, iter, span).
TokenSimple(t) == [simple |-> TRUE, t |-> t]
TokenGroup(del, it, span) == [simple |-> FALSE, del |-> del, iter |-> it, span |-> span]

None == [some |-> FALSE]
Some(v) == [some |-> TRUE, v |-> v]

\* TokenIter::new and new_like: the substitution groups of a TokenIter are
\* used for nested invocations only and are empty in inline_macro_impl.
TokenIterNew(stream) == [raw_tokens |-> stream, unconsumed |-> <<>>]

push_back(it, tokens) == [it EXCEPT !.unconsumed = it.unconsumed \o tokens]
push_front(it, token) == [it EXCEPT !.unconsumed = <<token>> \o it.unconsumed]
pop_front(it) == [it EXCEPT !.unconsumed = Tail(it.unconsumed)]

\* raw_tokens without its first n tokens (all of them when there are fewer).
Advance(it, n) ==
    [it EXCEPT !.raw_tokens = SubSeq(it.raw_tokens, n + 1, Len(it.raw_tokens))]

\* new_group(del, stream, span)
new_group(del, stream, span) == Tok("Group", del, stream, span)

\* is_punct(t, c): the punctuation c with Spacing::Alone.
is_punct(t, c) == t.k = "Punct" /\ t.v = c

\* TokenTree::from(token) and to_token_stream: without any processing.
RECURSIVE to_token_stream(_)
to_token_stream(it) ==
    Flatten([i \in 1..Len(it.unconsumed) |->
        IF it.unconsumed[i].simple THEN <<it.unconsumed[i].t>>
        ELSE <<new_group(it.unconsumed[i].del, to_token_stream(it.unconsumed[i].iter),
                         it.unconsumed[i].span)>>])
    \o it.raw_tokens

\* crate::invoke_nested(iter, is_duplicate), of which src has no definition:
\* the group after `duplicate!` holds the invocation in its first group and
\* the code to duplicate in its second group.
invoke_nested_inline(tokens, is_duplicate, feat) ==
    IF tokens = <<>> \/ ~IsGroup(tokens[1]) THEN Err("Expected '{', '[', or '('.", <<>>)
    ELSE IF Len(tokens[1].s) < 2 \/ ~IsGroup(tokens[1].s[1]) \/ ~IsGroup(tokens[1].s[2])
    THEN Err("Expected '['.", <<>>)
    ELSE IF is_duplicate
    THEN duplicate_impl(tokens[1].s[1].s, tokens[1].s[2].s, feat)
    ELSE Bind(validate_global_substitutions(tokens[1].s[1].s), LAMBDA globals :
             IF ~IsOk(globals) THEN globals
             ELSE duplicate_and_substitute(tokens[1].s[2].s, globals.val.sub_group, <<>>, feat))

\* The Err(..) of a method of TokenIter, with the iterator as it is left.
ErrAt(r, it) == [r EXCEPT !.rest = it]

\* TokenTree::from(token)
TokenTreeFrom(token) ==
    IF token.simple THEN token.t
    ELSE new_group(token.del, to_token_stream(token.iter), token.span)

\* fetch: moves at least one raw token to unconsumed; the value tells whether
\* a token was added, rest is the iterator afterwards.
FetchNested(it, feat) ==
    Bind(invoke_nested_inline(IF Len(it.raw_tokens) >= 3 THEN <<it.raw_tokens[3]>> ELSE <<>>,
                              it.raw_tokens[1].v = "duplicate", feat),
         LAMBDA stream :
             \* the three raw tokens are taken before invoke_nested(..)? returns
             IF ~IsOk(stream) THEN ErrAt(stream, Advance(it, 3))
             ELSE Ok(TRUE, push_back(Advance(it, 3),
                             <<TokenGroup("None", TokenIterNew(stream.val),
                                          it.raw_tokens[2].sp)>>)))

fetch(it, feat) ==
    IF it.raw_tokens = <<>> THEN Ok(FALSE, it)
    ELSE IF IsGroup(it.raw_tokens[1])
    THEN Ok(TRUE, push_back(Advance(it, 1),
                    <<TokenGroup(it.raw_tokens[1].v, TokenIterNew(it.raw_tokens[1].s),
                                 it.raw_tokens[1].sp)>>))
    ELSE IF IsIdent(it.raw_tokens[1]) /\ it.raw_tokens[1].v \in {"duplicate", "substitute"}
    THEN IF Len(it.raw_tokens) >= 2 /\ IsPunct(it.raw_tokens[2])
         THEN IF is_punct(it.raw_tokens[2], "!")
              THEN FetchNested(it, feat)
              ELSE Ok(TRUE, push_back(Advance(it, 2),
                              <<TokenSimple(it.raw_tokens[1]), TokenSimple(it.raw_tokens[2])>>))
         \* raw_tokens.next() has taken the token after the identifier.
         ELSE Ok(TRUE, push_back(Advance(it, 2), <<TokenSimple(it.raw_tokens[1])>>))
    ELSE Ok(TRUE, push_back(Advance(it, 1), <<TokenSimple(it.raw_tokens[1])>>))

RECURSIVE next_unconsumed(_, _)
RECURSIVE next_fallible(_, _)
\* The value is None or Some(token); rest is the iterator afterwards.
next_unconsumed(it, feat) ==
    IF it.unconsumed = <<>> THEN Ok(None, it)
    ELSE IF ~Head(it.unconsumed).simple /\ Head(it.unconsumed).del = "None"
    THEN Bind(next_fallible(Head(it.unconsumed).iter, feat), LAMBDA inner :
             \* err => err: the group popped is not put back
             IF ~IsOk(inner) THEN ErrAt(inner, pop_front(it))
             ELSE IF inner.val.some
             THEN Ok(inner.val,
                     push_front(pop_front(it),
                                [Head(it.unconsumed) EXCEPT !.iter = inner.rest]))
             ELSE next_fallible(pop_front(it), feat))
    ELSE Ok(Some(Head(it.unconsumed)), pop_front(it))

next_fallible(it, feat) ==
    Bind(fetch(it, feat), LAMBDA fetched :
        IF ~IsOk(fetched) THEN fetched ELSE next_unconsumed(fetched.rest, feat))

\* peek: the value is None or Some(front token); the iterator may have fetched.
RECURSIVE peek(_, _)
PeekFetch(it, feat) ==
    Bind(fetch(it, feat), LAMBDA fetched :
        IF ~IsOk(fetched) THEN fetched
        ELSE IF fetched.val THEN peek(fetched.rest, feat)
        ELSE Ok(None, fetched.rest))

peek(it, feat) ==
    IF it.unconsumed = <<>> THEN PeekFetch(it, feat)
    ELSE IF ~Head(it.unconsumed).simple /\ Head(it.unconsumed).del = "None"
    THEN Bind(next_fallible(Head(it.unconsumed).iter, feat), LAMBDA inner :
             \* front_mut(): the iterator of the group is advanced in place
             IF ~IsOk(inner)
             THEN ErrAt(inner, push_front(pop_front(it),
                                   [Head(it.unconsumed) EXCEPT !.iter = inner.rest]))
             ELSE IF inner.val.some
             THEN Ok(inner.val,
                     push_front(push_front(pop_front(it),
                                    [Head(it.unconsumed) EXCEPT !.iter = inner.rest]),
                                inner.val.v))
             ELSE IF it.raw_tokens = <<>>
             THEN Ok(IF Len(it.unconsumed) > 1 THEN Some(it.unconsumed[2]) ELSE None,
                     pop_front(it))
             ELSE PeekFetch(pop_front(it), feat))
    ELSE Ok(Some(Head(it.unconsumed)), it)

\* next_group(expected): the value is the iterator of the group and its span.
next_group(it, expected, feat) ==
    Bind(peek(it, feat), LAMBDA front :
        IF ~IsOk(front) THEN front
        ELSE IF front.val.some /\ ~front.val.v.simple /\ front.val.v.del # "None"
        THEN IF expected # "" /\ expected # front.val.v.del
             THEN ErrAt(Err("Expected delimiter.", <<expected>>), front.rest)
             ELSE Bind(next_fallible(front.rest, feat), LAMBDA next :
                      IF ~IsOk(next) THEN next
                      \* del: the delimiter of the group taken, which peek has looked at
                      ELSE Ok([iter |-> next.val.v.iter, span |-> next.val.v.span,
                               del |-> next.val.v.del], next.rest))
        ELSE ErrAt(Err("Expected delimiter.", <<expected>>), front.rest))

\* is_ident(t, None), is_semicolon(t) and is_punct(t, ','): the predicates
\* extract_identifier, expect_semicolon and expect_comma give extract_simple.
SimplePredicate(p, t) ==
    CASE p = "identifier" -> IsIdent(t)
      [] p = "';'" -> is_punct(t, ";")
      [] OTHER -> is_punct(t, ",")

\* extract_simple(p, f, expected): the value is the token tree given to f.
extract_simple(it, p, feat) ==
    Bind(peek(it, feat), LAMBDA front :
        IF ~IsOk(front) THEN front
        ELSE IF front.val.some /\ front.val.v.simple /\ SimplePredicate(p, front.val.v.t)
        THEN Bind(next_fallible(front.rest, feat), LAMBDA next :
                 \* self.next_fallible().unwrap().unwrap()
                 IF ~IsOk(next) \/ ~next.val.some
                 THEN ErrAt([Err("called unwrap() on an Err or None value", <<>>)
                                EXCEPT !.st = "panic"], next.rest)
                 ELSE Ok(TokenTreeFrom(next.val.v), next.rest))
        ELSE IF front.val.some /\ front.val.v.simple
        THEN ErrAt(Err("Unexpected token.", <<p>>), front.rest)
        ELSE IF front.val.some
        THEN ErrAt(Err("Unexpected delimiter.", <<p>>), front.rest)
        ELSE ErrAt(Err("Unexpected end of code.", <<p>>), front.rest))

\* inline_macro_impl(stream, f) up to the call of f: the invocation and the
\* item handed to f.
inline_macro_impl(stream, feat) ==
    Bind(next_group(TokenIterNew(stream), "Bracket", feat), LAMBDA invocation :
        IF ~IsOk(invocation)
        THEN Err(invocation.err.msg, <<"Expected invocation within brackets: [...]">>)
        ELSE Ok([attr |-> to_token_stream(invocation.val.iter),
                 item |-> to_token_stream(invocation.rest)], <<>>))

\* The macros duplicate_item and duplicate.
duplicate_item(attr, item, feat) == duplicate_impl(attr, item, feat)

duplicate(stream, feat) ==
    Bind(inline_macro_impl(stream, feat), LAMBDA call :
        IF ~IsOk(call) THEN call ELSE duplicate_impl(call.val.attr, call.val.item, feat))

\* ------------------------------------------------------------------------
\* Inputs: invocations and items of a bounded vocabulary
\* ------------------------------------------------------------------------
Bracket(s) == Group("Bracket", s)
Paren(s) == Group("Parenthesis", s)
Brace(s) == Group("Brace", s)
Semi == Punct(";")
Comma == Punct(",")

\* A declared substitution identifier and a (declaration, body) pair.
Decl(name, params) == [name |-> name, params |-> params]
Pair(decl, body) == [decl |-> decl, body |-> body]

DeclA == Decl("a", <<>>)
DeclB == Decl("b", <<>>)
DeclG == Decl("g", <<>>)
DeclRefs == Decl("refs", <<"type">>)
DeclRefs2 == Decl("refs", <<"type", "u">>)

RECURSIVE CommaList(_)
CommaList(names) ==
    IF names = <<>> THEN <<>>
    ELSE IF Len(names) = 1 THEN <<Ident(names[1])>>
    ELSE <<Ident(names[1]), Comma>> \o CommaList(Tail(names))

DeclTokens(d) ==
    <<Ident(d.name)>> \o (IF d.params = <<>> THEN <<>> ELSE <<Paren(CommaList(d.params))>>)

PairTokens(pr) == DeclTokens(pr.decl) \o <<Bracket(pr.body)>>

\* `id1 .. idm; [s11]..[s1m]; ..; [sn1]..[snm]` with an optional last `;`.
ShortRows(rows, trailing) ==
    Flatten([k \in 1..Len(rows) |->
        [i \in 1..Len(rows[k]) |-> Bracket(rows[k][i])]
        \o (IF k < Len(rows) \/ trailing THEN <<Semi>> ELSE <<>>)])

ShortPayload(decls, rows, trailing) ==
    Flatten([i \in 1..Len(decls) |-> DeclTokens(decls[i])]) \o <<Semi>>
    \o ShortRows(rows, trailing)

\* `[ id [s] id [s] .. ]`
VerboseGroup(pairs) == Bracket(Flatten([i \in 1..Len(pairs) |-> PairTokens(pairs[i])]))

VerbosePayload(groups) == [k \in 1..Len(groups) |-> VerboseGroup(groups[k])]

\* `id [s]; id [s]; ..` with an optional last `;`.
GlobalPayload(pairs, trailing) ==
    Flatten([i \in 1..Len(pairs) |->
        PairTokens(pairs[i])
        \o (IF i < Len(pairs) \/ trailing THEN <<Semi>> ELSE <<>>)])

\* `#[invocation][item]`
Nested(invocation, nested_item) ==
    <<Punct("#"), Bracket(invocation), Bracket(nested_item)>>

\* The groups a short invocation is meant to give.
ShortGroups(decls, rows) ==
    [k \in 1..Len(rows) |-> [i \in 1..Len(decls) |-> Pair(decls[i], rows[k][i])]]

\* An invocation: its tokens and the definition it is written to give.
\* kind: "short", "verbose", "global" (global substitutions only), "other".
Invocation(kind, tokens, globals, groups) ==
    [kind |-> kind, attr |-> tokens, globals |-> globals, groups |-> groups]

SimpleBodies == {<<Ident("X")>>, <<Ident("Y")>>}
RefsBodies == {<<Punct("&"), Ident("type")>>, <<Punct("&"), Ident("mut"), Ident("type")>>}
BodiesOf(d) == IF d.params = <<>> THEN SimpleBodies ELSE RefsBodies

ShortDecls == {<<DeclA>>, <<DeclA, DeclB>>, <<DeclRefs>>, <<DeclRefs, DeclA>>}

\* All rows for the declarations: one body for each identifier.
RowsOf(decls) ==
    {row \in [1..Len(decls) -> SimpleBodies \cup RefsBodies] :
        \A i \in 1..Len(decls) : row[i] \in BodiesOf(decls[i])}

\* int_type max_value; [u8] [255]; [u16] [65535];
ScenarioA ==
    LET decls == <<Decl("int_type", <<>>), Decl("max_value", <<>>)>>
        rows == <<<<<<Ident("u8")>>, <<Literal("255")>>>>,
                  <<<<Ident("u16")>>, <<Literal("65535")>>>>>>
    IN  Invocation("short", ShortPayload(decls, rows, TRUE), <<>>, ShortGroups(decls, rows))

ShortInvocations ==
    {ScenarioA} \cup
    {Invocation("short", ShortPayload(decls, rows, trailing), <<>>,
                ShortGroups(decls, rows)) :
        decls \in ShortDecls, trailing \in BOOLEAN, rows \in {<<>>}} \cup
    UNION {{Invocation("short", ShortPayload(decls, rows, trailing), <<>>,
                       ShortGroups(decls, rows)) :
               trailing \in BOOLEAN, rows \in [1..n -> RowsOf(decls)]} :
           decls \in ShortDecls, n \in 1..MaxDup}

VerboseGroups ==
    {<<Pair(DeclA, <<Ident("X")>>)>>,
     <<Pair(DeclA, <<Punct("&"), Ident("Y")>>)>>,
     <<Pair(DeclA, <<Ident("X")>>), Pair(DeclB, <<Ident("Y")>>)>>,
     <<Pair(DeclB, <<Ident("X")>>), Pair(DeclA, <<Ident("Y")>>)>>,
     <<Pair(DeclRefs, <<Punct("&"), Ident("type")>>)>>,
     <<Pair(DeclA, <<Ident("Y")>>), Pair(DeclRefs, <<Punct("&"), Ident("mut"), Ident("type")>>)>>,
     <<Pair(DeclRefs2, <<Ident("type"), Paren(<<Ident("u")>>)>>)>>}

VerboseInvocations ==
    UNION {{Invocation("verbose", VerbosePayload(groups), <<>>, groups) :
               groups \in [1..n -> VerboseGroups]} : n \in 1..MaxDup}

GlobalLists ==
    {<<Pair(DeclG, <<Ident("X")>>)>>,
     <<Pair(DeclA, <<Ident("Y")>>)>>,
     <<Pair(DeclRefs, <<Punct("&"), Ident("type")>>)>>,
     <<Pair(DeclG, <<Ident("a")>>), Pair(DeclRefs, <<Paren(<<Ident("type")>>), Ident("g")>>)>>}

GlobalInvocations ==
    {Invocation("global", GlobalPayload(pairs, trailing), pairs, <<>>) :
        pairs \in GlobalLists, trailing \in BOOLEAN} \cup
    {Invocation("short",
                GlobalPayload(pairs, TRUE) \o ShortPayload(<<DeclA>>, rows, FALSE),
                pairs, ShortGroups(<<DeclA>>, rows)) :
        pairs \in GlobalLists, rows \in [1..1 -> RowsOf(<<DeclA>>)]} \cup
    {Invocation("verbose", GlobalPayload(pairs, TRUE) \o VerbosePayload(<<group>>),
                pairs, <<group>>) :
        pairs \in GlobalLists, group \in VerboseGroups}

\* n; [X]; [Y]
NestedXY == ShortPayload(<<Decl("n", <<>>)>>, <<<<<<Ident("X")>>>>, <<<<Ident("Y")>>>>>>, FALSE)
\* n; [X]; [Y]; [Alpha]
NestedXYZ == ShortPayload(<<Decl("n", <<>>)>>, <<<<<<Ident("X")>>>>, <<<<Ident("Y")>>>>, <<<<Ident("Alpha")>>>>>>, FALSE)
\* k; [X]; [Y]
NestedKXY == ShortPayload(<<Decl("k", <<>>)>>, <<<<<<Ident("X")>>>>, <<<<Ident("Y")>>>>>>, FALSE)
GroupAB(body_a, body_b) == <<Pair(DeclA, body_a), Pair(DeclB, body_b)>>
GroupA(body) == <<Pair(DeclA, body)>>
GroupB(body) == <<Pair(DeclB, body)>>

NestedInvocations ==
    {Invocation("verbose",
                Nested(NestedXY, <<Bracket(<<Ident("a"), Bracket(<<Ident("n")>>)>>)>>),
                <<>>, <<GroupA(<<Ident("X")>>), GroupA(<<Ident("Y")>>)>>),
     Invocation("verbose",
                Nested(NestedXY, <<Bracket(<<Ident("a"), Bracket(<<Ident("n")>>)>>)>>)
                \o VerbosePayload(<<GroupB(<<Ident("Y")>>)>>),
                <<>>, <<GroupA(<<Ident("X")>>), GroupA(<<Ident("Y")>>), GroupB(<<Ident("Y")>>)>>),
     Invocation("verbose",
                VerbosePayload(<<GroupA(<<Ident("X")>>)>>)
                \o Nested(NestedXY, <<Bracket(<<Ident("b"), Bracket(<<Ident("n")>>)>>)>>),
                <<>>, <<GroupA(<<Ident("X")>>), GroupB(<<Ident("X")>>), GroupB(<<Ident("Y")>>)>>),
     Invocation("verbose",
                VerbosePayload(<<GroupA(<<Ident("Y")>>)>>)
                \o Nested(NestedXY, <<Bracket(<<Ident("a"), Bracket(<<Ident("n")>>)>>)>>),
                <<>>, <<GroupA(<<Ident("Y")>>), GroupA(<<Ident("X")>>), GroupA(<<Ident("Y")>>)>>),
     Invocation("short",
                DeclTokens(DeclA) \o <<Semi>>
                \o Nested(NestedXY, <<Bracket(<<Ident("n")>>), Semi>>),
                <<>>, <<GroupA(<<Ident("X")>>), GroupA(<<Ident("Y")>>)>>),
     Invocation("verbose",
                Nested(NestedXYZ, <<Bracket(<<Ident("a"), Bracket(<<Ident("n")>>)>>)>>)
                \o VerbosePayload(<<GroupA(<<Ident("Beta")>>)>>),
                <<>>, <<GroupA(<<Ident("X")>>), GroupA(<<Ident("Y")>>),
                        GroupA(<<Ident("Alpha")>>), GroupA(<<Ident("Beta")>>)>>),
     Invocation("verbose",
                Nested(NestedXY, Nested(NestedKXY,
                    <<Bracket(<<Ident("a"), Bracket(<<Ident("n")>>),
                                Ident("b"), Bracket(<<Ident("k")>>)>>)>>)),
                <<>>, <<GroupAB(<<Ident("X")>>, <<Ident("X")>>),
                        GroupAB(<<Ident("X")>>, <<Ident("Y")>>),
                        GroupAB(<<Ident("Y")>>, <<Ident("X")>>),
                        GroupAB(<<Ident("Y")>>, <<Ident("Y")>>)>>),
     Invocation("verbose",
                VerbosePayload(<<GroupA(<<Ident("X")>>)>>) \o Nested(NestedXY, <<>>),
                <<>>, <<GroupA(<<Ident("X")>>)>>)}

\* Invocations that are not of the forms above.
OtherInvocations ==
    {Invocation("other", <<>>, <<>>, <<>>),
     Invocation("other", <<Literal("5")>>, <<>>, <<>>),
     Invocation("other", <<Ident("a"), Semi, Bracket(<<Ident("X")>>), Semi, Semi>>, <<>>, <<>>),
     Invocation("other", <<Ident("a"), Ident("a"), Semi,
                           Bracket(<<Ident("X")>>), Bracket(<<Ident("Y")>>)>>, <<>>, <<>>),
     Invocation("other", <<Ident("a"), Semi, Bracket(<<Ident("X")>>), Bracket(<<Ident("Y")>>)>>,
                <<>>, <<>>),
     Invocation("other", <<Bracket(<<>>)>>, <<>>, <<>>),
     Invocation("other",
                Nested(<<Ident("n"), Semi, Bracket(<<Ident("X")>>), Bracket(<<Ident("Y")>>)>>,
                       <<Bracket(<<Ident("a"), Bracket(<<Ident("n")>>)>>)>>),
                <<>>, <<>>)}

\* Short invocations with a row of fewer or of more substitutions than
\* identifiers were declared.
MismatchRows ==
    LET x == <<Ident("X")>>
        y == <<Ident("Y")>>
    IN  {<<<<DeclA, DeclB>>, <<<<x>>>>>>,
         <<<<DeclA, DeclB>>, <<<<x, y, x>>>>>>,
         <<<<DeclA, DeclB>>, <<<<x, y>>, <<y>>>>>>,
         <<<<DeclA, DeclB>>, <<<<x>>, <<x, y>>>>>>,
         <<<<DeclA, DeclB>>, <<<<x, y>>, <<y, x, y>>>>>>,
         <<<<DeclA>>, <<<<x, y>>>>>>,
         <<<<DeclA>>, <<<<x>>, <<x, y>>>>>>}

MismatchInvocations ==
    {Invocation("other", ShortPayload(m[1], m[2], trailing), <<>>, <<>>) :
        m \in MismatchRows, trailing \in BOOLEAN}

\* The user substitutes the name of the module `m`:
\* `m; [X]; [Y]`, `[m [X]] [m [Y]]` and `m a; [X] [Y]; [Y] [X]`.
DeclM == Decl("m", <<>>)
ModuleNameInvocations ==
    LET x == <<Ident("X")>>
        y == <<Ident("Y")>>
    IN  {Invocation("short", ShortPayload(<<DeclM>>, <<<<x>>, <<y>>>>, FALSE), <<>>,
                    ShortGroups(<<DeclM>>, <<<<x>>, <<y>>>>)),
         Invocation("verbose", VerbosePayload(<<<<Pair(DeclM, x)>>, <<Pair(DeclM, y)>>>>), <<>>,
                    <<<<Pair(DeclM, x)>>, <<Pair(DeclM, y)>>>>),
         Invocation("short", ShortPayload(<<DeclM, DeclA>>, <<<<x, y>>, <<y, x>>>>, TRUE), <<>>,
                    ShortGroups(<<DeclM, DeclA>>, <<<<x, y>>, <<y, x>>>>))}

\* `[a [X] b [Y] refs(type) [& type]]`: two identifiers with one identifier
\* as substitution and a parameterized one.
ThreePairInvocations ==
    LET group == <<Pair(DeclA, <<Ident("X")>>), Pair(DeclB, <<Ident("Y")>>),
                   Pair(DeclRefs, <<Punct("&"), Ident("type")>>)>>
    IN  {Invocation("verbose", VerbosePayload(<<group>>), <<>>, <<group>>)}

\* The invocations and the code given to duplicate!{ [invocation] code }.
InlineInvocations ==
    {ScenarioA} \cup OtherInvocations \cup
    {Invocation("short", ShortPayload(<<DeclA>>, rows, FALSE), <<>>,
                ShortGroups(<<DeclA>>, rows)) :
        rows \in UNION {[1..n -> RowsOf(<<DeclA>>)] : n \in 1..MaxDup}}

InlineBodies ==
    {<<>>,
     <<Ident("a")>>,
     <<Ident("x"), Ident("a"), Brace(<<Ident("b"), Paren(<<Ident("a")>>), Literal("1")>>)>>,
     <<Brace(<<Ident("a")>>), Ident("a")>>,
     <<Ident("mod"), Ident("m"), Brace(<<Ident("a"), Ident("m")>>)>>,
     <<Ident("substitute"), Paren(<<Ident("a")>>), Semi>>,
     <<Ident("duplicate"), Ident("a"), Ident("x")>>,
     <<Ident("duplicate"), Semi, Ident("a")>>,
     <<Ident("substitute")>>,
     <<Ident("a"), Ident("duplicate"), Ident("a"), Ident("x")>>}

\* The tokens between the braces of duplicate!{..}; the last ones lack the
\* bracketed invocation.
InlineStreams ==
    {[intent |-> i, stream |-> <<Bracket(i.attr)>> \o b] :
        i \in InlineInvocations, b \in InlineBodies} \cup
    {[intent |-> Invocation("other", <<>>, <<>>, <<>>), stream |-> s] :
        s \in {<<>>, <<Ident("a")>>, <<Brace(<<Ident("a")>>)>>,
                <<Ident("duplicate"), Bracket(<<Ident("a")>>)>>}}

\* A parameter list that names the parameter twice, in the three syntaxes:
\* `refs(type, type); [& type]`, `[refs(type, type) [& type]]` and
\* `refs(type, type) [& type]`.
DeclRepeated == Decl("refs", <<"type", "type">>)
RepeatedParamInvocations ==
    LET body == <<Punct("&"), Ident("type")>>
    IN  {Invocation("other", ShortPayload(<<DeclRepeated>>, <<<<body>>>>, FALSE), <<>>, <<>>),
         Invocation("other", VerbosePayload(<<<<Pair(DeclRepeated, body)>>>>), <<>>, <<>>),
         Invocation("other", GlobalPayload(<<Pair(DeclRepeated, body)>>, FALSE), <<>>, <<>>)}

\* The tokens a TokenIter is made for. A group without delimiters is what the
\* compiler puts around the tokens of a macro argument.
NoneGroup(s) == Group("None", s)
NestedCall(name, invocation, code) ==
    <<Ident(name), Punct("!"), Brace(<<Bracket(invocation), Bracket(code)>>)>>

CursorStreams ==
    {<<Ident("a"), Ident("b")>>,
     <<NoneGroup(<<Ident("a"), Ident("b")>>), NoneGroup(<<Ident("c")>>)>>,
     <<NoneGroup(<<>>), Ident("a")>>,
     <<Paren(<<Ident("a"), NoneGroup(<<Ident("b")>>)>>), Semi, Ident("c")>>,
     <<Ident("duplicate"), Ident("a"), Ident("x")>>,
     <<Ident("substitute"), Semi, Ident("a")>>,
     <<Ident("duplicate"), Paren(<<Ident("a")>>)>>,
     <<Bracket(<<Ident("a")>>), Ident("duplicate")>>,
     NestedCall("duplicate",
                <<Ident("a"), Semi, Bracket(<<Ident("X")>>), Semi, Bracket(<<Ident("Y")>>)>>,
                <<Ident("a"), Ident("b")>>) \o <<Ident("c")>>,
     NestedCall("substitute", <<Ident("a"), Bracket(<<Ident("X")>>)>>,
                <<Ident("a"), Ident("a")>>)
     \o NestedCall("duplicate", <<Bracket(<<Ident("a"), Bracket(<<Ident("Y")>>)>>)>>,
                   <<Ident("a")>>),
     <<Ident("a"), Ident("duplicate"), Punct("!"), Bracket(<<Literal("5")>>), Ident("b")>>,
     <<NoneGroup(<<Ident("duplicate"), Punct("!")>>), Ident("b")>>}

\* The token a caller gives back with push_front.
PushedToken == TokenSimple(Ident("z"))

\* Verbose groups with tokens that are no `identifier (params)? [substitution]`
\* pair: `[a [X] b]`, `[a [X]; b [Y]]`, `[a [X] 5]` and `[a]`.
LeftoverInvocations ==
    {Invocation("other", <<Bracket(PairTokens(Pair(DeclA, <<Ident("X")>>)) \o rest)>>, <<>>, <<>>) :
        rest \in {<<Ident("b")>>,
                  <<Semi>> \o PairTokens(Pair(DeclB, <<Ident("Y")>>)),
                  <<Literal("5")>>}}
    \cup {Invocation("other", <<Bracket(<<Ident("a")>>)>>, <<>>, <<>>)}

Invocations ==
    ShortInvocations \cup VerboseInvocations \cup GlobalInvocations
    \cup NestedInvocations \cup OtherInvocations \cup MismatchInvocations
    \cup ModuleNameInvocations \cup ThreePairInvocations
    \cup RepeatedParamInvocations \cup LeftoverInvocations

\* `refs(..)`: a use of the parameterized identifier.
Use(args) == <<Ident("refs"), Paren(args)>>

Items ==
    {<<Ident("a")>>,
     <<Ident("x"), Ident("a"), Brace(<<Ident("b"), Paren(<<Ident("a")>>), Literal("1")>>)>>,
     <<Ident("x"), Brace(<<Ident("y"), Bracket(<<>>)>>), Punct("+")>>,
     <<Ident("g"), Ident("a"), Ident("b")>>,
     Use(<<Bracket(<<Ident("i32")>>)>>),
     Use(<<Bracket(<<Ident("a"), Paren(<<Ident("g")>>)>>), Comma>>),
     Use(<<Bracket(Use(<<Bracket(<<Ident("i32")>>)>>))>>),
     Use(<<>>),
     Use(<<Bracket(<<Ident("x")>>), Comma, Bracket(<<Ident("y")>>)>>),
     Use(<<Bracket(<<Ident("mod"), Ident("m"), Brace(<<Ident("x")>>)>>)>>),
     <<Ident("mod"), Ident("m"), Brace(<<Ident("a"), Ident("m")>>)>>,
     <<Ident("mod"), Ident("m"), Brace(<<Ident("x")>>)>>,
     <<Ident("mod"), Ident("m"), Brace(<<Ident("a"), Ident("b")>>)>>,
     <<Ident("impl"), Ident("M"), Ident("for"), Ident("int_type"),
       Brace(<<Ident("fn"), Ident("f"), Paren(<<>>),
               Brace(<<Punct("*"), Ident("self"), Punct("=="), Ident("max_value")>>)>>)>>}

\* ------------------------------------------------------------------------
\* Inputs of Substitution::new and Substitution::apply
\* ------------------------------------------------------------------------
ParamLists == {<<>>, <<"type">>, <<"type", "u">>}

SubstitutionBodies ==
    {<<Ident("X")>>,
     <<Punct("&"), Ident("type")>>,
     <<Punct("&"), Ident("mut"), Ident("type")>>,
     <<Ident("u"), Paren(<<Ident("type"), Brace(<<Ident("u"), Ident("X")>>)>>), Ident("type")>>,
     <<Bracket(<<>>), Ident("type")>>}

ArgumentStreams == {<<Ident("i32")>>, <<Ident("a"), Paren(<<Ident("type")>>)>>, <<>>}

\* The argument lists of at most MaxArgs arguments.
MaxArgs == 3
ArgumentLists == UNION {[1..n -> ArgumentStreams] : n \in 0..MaxArgs}

NoInput == [arguments |-> <<>>, stream |-> <<>>]

\* ------------------------------------------------------------------------
\* The state machine: one call of the macro (duplicate_impl), and the use of
\* a Substitution (new, then apply)
\* ------------------------------------------------------------------------
VARIABLES
    macro,               \* the macro called: "duplicate_item" or "duplicate"
    stream,              \* duplicate!{..}: the tokens between the braces
    attr,                \* the invocation's tokens
    item,                \* the item's tokens
    feat,                \* built with the module_disambiguation feature
    intent,              \* the Invocation attr was written as
    pc,                  \* the position in duplicate_impl
    iter,                \* parse_invocation: the tokens not yet consumed
    extra,               \* parse_invocation: the identifier taken too far
    dup_def,             \* the DuplicationDefinition
    mod_and_postfix_sub, \* duplicate_and_substitute: the module to rename
    pass,                \* duplicate_and_substitute: the next duplicate
    result,              \* duplicate_and_substitute: the tokens so far
    copies,              \* the tokens each finished duplicate added
    output,              \* the tokens returned by duplicate_impl
    error,               \* the error returned
    err_at,              \* the position the error was returned from
    sub_input,           \* Substitution::new: the parameters and the body
    substitution,        \* the Substitution
    sub_arguments,       \* Substitution::apply: the arguments given
    applied,             \* the result of Substitution::apply
    cursor,              \* a TokenIter
    before,              \* the TokenIter before its last method was called
    handed,              \* the method called last and what it returned
    produced,            \* the tokens the TokenIter has been made to give up
    pushes               \* the number of push_front calls

vars == <<macro, stream, attr, item, feat, intent, pc, iter, extra, dup_def, mod_and_postfix_sub,
          pass, result, copies, output, error, err_at, sub_input, substitution, sub_arguments,
          applied, cursor, before, handed, produced, pushes>>

inputs == <<macro, stream, feat, intent, sub_input>>
sub_vars == <<substitution, sub_arguments, applied>>
call_vars == <<iter, extra, dup_def, mod_and_postfix_sub, pass, result, copies, output>>
cursor_vars == <<cursor, before, handed, produced, pushes>>

Handed(op, st, token) == [op |-> op, st |-> st, token |-> token]

NoDefinition == DuplicationDefinition(SubstitutionGroupNew, <<>>)

InitCall ==
    /\ iter = <<>>
    /\ extra = NoExtra
    /\ dup_def = NoDefinition
    /\ mod_and_postfix_sub = NoModule
    /\ pass = 1
    /\ result = <<>>
    /\ copies = <<>>
    /\ output = <<>>
    /\ error = NoErr
    /\ err_at = ""

\* No TokenIter of its own: the calls below make theirs.
NoCursor ==
    /\ cursor = TokenIterNew(<<>>)
    /\ before = TokenIterNew(<<>>)
    /\ handed = Handed("", "ok", None)
    /\ produced = <<>>
    /\ pushes = 0

\* A call of duplicate_impl(attr, item).
InitMacro ==
    /\ macro = "duplicate_item"
    /\ stream = <<>>
    /\ intent \in Invocations
    /\ attr = intent.attr
    /\ item \in Items
    /\ feat \in BOOLEAN
    /\ pc = "start"
    /\ InitCall
    /\ sub_input = NoInput
    /\ substitution = NoSubstitution
    /\ sub_arguments = <<>>
    /\ applied = Ok(<<>>, <<>>)
    /\ NoCursor

\* A Substitution to be made by Substitution::new.
InitSubstitution ==
    /\ macro = ""
    /\ stream = <<>>
    /\ intent = Invocation("other", <<>>, <<>>, <<>>)
    /\ attr = <<>>
    /\ item = <<>>
    /\ feat = FALSE
    /\ pc = "substitution"
    /\ InitCall
    /\ sub_input \in [arguments : ParamLists, stream : SubstitutionBodies]
    /\ substitution = NoSubstitution
    /\ sub_arguments = <<>>
    /\ applied = Ok(<<>>, <<>>)
    /\ NoCursor

\* A call of duplicate!{ stream }.
InitInline ==
    /\ macro = "duplicate"
    /\ \E call \in InlineStreams :
          /\ intent = call.intent
          /\ stream = call.stream
    /\ attr = <<>>
    /\ item = <<>>
    /\ feat \in BOOLEAN
    /\ pc = "inline"
    /\ InitCall
    /\ sub_input = NoInput
    /\ substitution = NoSubstitution
    /\ sub_arguments = <<>>
    /\ applied = Ok(<<>>, <<>>)
    /\ NoCursor

\* TokenIter::new(stream, ..)
InitCursor ==
    /\ macro = ""
    /\ stream \in CursorStreams
    /\ intent = Invocation("other", <<>>, <<>>, <<>>)
    /\ attr = <<>>
    /\ item = <<>>
    /\ feat \in BOOLEAN
    /\ pc = "cursor"
    /\ InitCall
    /\ sub_input = NoInput
    /\ substitution = NoSubstitution
    /\ sub_arguments = <<>>
    /\ applied = Ok(<<>>, <<>>)
    /\ cursor = TokenIterNew(stream)
    /\ before = TokenIterNew(stream)
    /\ handed = Handed("", "ok", None)
    /\ produced = <<>>
    /\ pushes = 0

Init == InitMacro \/ InitInline \/ InitSubstitution \/ InitCursor

\* An error, or a call that does not return, ends the call with no tokens.
\* Fail that hands out the copies made before the error.
FailWithCopies(r) ==
    /\ pc' = IF r.st = "hang" THEN "hang" ELSE "error"
    /\ error' = r.err
    /\ err_at' = pc
    /\ result' = result
    /\ output' = result

\* An Err(..) is returned with `?`: result is dropped, the caller gets the error only.
Fail(r) ==
    /\ pc' = IF r.st = "hang" THEN "hang" ELSE "error"
    /\ error' = r.err
    /\ err_at' = pc
    /\ result' = <<>>
    /\ output' = <<>>

\* inline_macro_impl: the invocation and the item are taken from the stream.
Inline ==
    /\ pc = "inline"
    /\ LET call == inline_macro_impl(stream, feat)
       IN  IF IsOk(call)
           THEN /\ pc' = "start"
                /\ attr' = call.val.attr
                /\ item' = call.val.item
                /\ UNCHANGED <<result, output, error, err_at>>
           ELSE /\ Fail(call)
                /\ UNCHANGED <<attr, item>>
    /\ UNCHANGED <<inputs, cursor_vars, sub_vars, iter, extra, dup_def, mod_and_postfix_sub, pass, copies>>

\* parse_invocation, first part: validate_global_substitutions.
ParseGlobals ==
    /\ pc = "start"
    /\ LET globals == validate_global_substitutions(attr)
       IN  IF IsOk(globals)
           THEN /\ pc' = "globals"
                /\ dup_def' = DuplicationDefinition(globals.val.sub_group, <<>>)
                /\ extra' = globals.val.extra
                /\ iter' = globals.rest
                /\ UNCHANGED <<result, output, error, err_at>>
           ELSE /\ Fail(globals)
                /\ UNCHANGED <<dup_def, extra, iter>>
    /\ UNCHANGED <<inputs, cursor_vars, attr, item, sub_vars, mod_and_postfix_sub, pass, copies>>

\* parse_invocation, extra is None: the verbose syntax.
ParseVerbose ==
    /\ pc = "globals"
    /\ ~extra.some
    /\ LET definition == ParseVerboseDefinition(
                             Ok([sub_group |-> dup_def.global_substitutions,
                                 extra |-> extra], iter), feat)
       IN  IF IsOk(definition)
           THEN /\ pc' = "parsed"
                /\ dup_def' = definition.val
                /\ iter' = <<>>
                /\ UNCHANGED <<result, output, error, err_at>>
           ELSE /\ Fail(definition)
                /\ UNCHANGED <<dup_def, iter>>
    /\ UNCHANGED <<inputs, cursor_vars, attr, item, sub_vars, extra, mod_and_postfix_sub, pass, copies>>

\* parse_invocation, extra is Some: the short syntax.
ParseShort ==
    /\ pc = "globals"
    /\ extra.some
    /\ LET definition == ParseShortDefinition(
                             Ok([sub_group |-> dup_def.global_substitutions,
                                 extra |-> extra], iter), feat)
       IN  IF IsOk(definition)
           THEN /\ pc' = "parsed"
                /\ dup_def' = definition.val
                /\ iter' = <<>>
                /\ UNCHANGED <<result, output, error, err_at>>
           ELSE /\ Fail(definition)
                /\ UNCHANGED <<dup_def, iter>>
    /\ UNCHANGED <<inputs, cursor_vars, attr, item, sub_vars, extra, mod_and_postfix_sub, pass, copies>>

\* duplicate_and_substitute: disambiguate_module(&item, sub_groups.clone())?
Disambiguate ==
    /\ pc = "parsed"
    /\ LET module == disambiguate_module(item, dup_def.duplications, feat)
       IN  IF IsOk(module)
           THEN /\ pc' = "duplicate"
                /\ mod_and_postfix_sub' = module.val
                /\ UNCHANGED <<result, output, error, err_at>>
           ELSE /\ Fail(module)
                /\ UNCHANGED mod_and_postfix_sub
    /\ UNCHANGED <<inputs, cursor_vars, attr, item, sub_vars, iter, extra, dup_def, pass, copies>>

\* duplicate_and_substitute: one call of duplicate_and_substitute_one.
Duplicate ==
    /\ pc = "duplicate"
    /\ pass <= PassCount(dup_def.duplications)
    /\ LET one == DuplicateOne(item, dup_def.global_substitutions,
                               PassGroup(dup_def.duplications, pass),
                               mod_and_postfix_sub, feat)
       IN  IF IsOk(one)
           THEN /\ result' = result \o one.val
                /\ copies' = Append(copies, one.val)
                /\ pass' = pass + 1
                /\ UNCHANGED <<pc, output, error, err_at>>
           ELSE /\ Fail(one)
                /\ UNCHANGED <<copies, pass>>
    /\ UNCHANGED <<inputs, cursor_vars, attr, item, sub_vars, iter, extra, dup_def, mod_and_postfix_sub>>

\* duplicate_and_substitute: Ok(result)
Return ==
    /\ pc = "duplicate"
    /\ pass > PassCount(dup_def.duplications)
    /\ pc' = "done"
    /\ output' = result
    /\ UNCHANGED <<inputs, cursor_vars, attr, item, sub_vars, iter, extra, dup_def, mod_and_postfix_sub, pass,
                   result, copies, error, err_at>>

\* Substitution::new(&arguments, stream)
New ==
    /\ pc = "substitution"
    /\ substitution' = SubstitutionNew(sub_input.arguments, sub_input.stream)
    /\ pc' = "new"
    /\ UNCHANGED <<inputs, cursor_vars, attr, item, call_vars, error, err_at, sub_arguments, applied>>

\* substitution.apply(&arguments, err_span)
Apply ==
    /\ pc = "new"
    /\ \E arguments \in ArgumentLists :
          /\ sub_arguments' = arguments
          /\ applied' = apply(substitution, arguments)
          /\ pc' = "applied"
    /\ UNCHANGED <<inputs, cursor_vars, attr, item, call_vars, error, err_at, substitution>>

\* A method of the TokenIter has returned r.
Returned(op, r, token) ==
    /\ pc' = IF r.st = "hang" THEN "hang" ELSE "cursor"
    /\ before' = cursor
    /\ cursor' = r.rest
    /\ handed' = Handed(op, r.st, IF IsOk(r) THEN token ELSE None)
    /\ UNCHANGED <<inputs, attr, item, call_vars, error, err_at, sub_vars, pushes>>

\* iter.next_fallible()
NextFallible ==
    /\ pc = "cursor"
    /\ LET r == next_fallible(cursor, feat)
       IN  /\ Returned("next_fallible", r, r.val)
           /\ produced' = IF IsOk(r) /\ r.val.some
                           THEN Append(produced, TokenTreeFrom(r.val.v)) ELSE produced

\* iter.peek()
Peek ==
    /\ pc = "cursor"
    /\ LET r == peek(cursor, feat)
       IN  Returned("peek", r, r.val)
    /\ UNCHANGED produced

\* iter.next_group(expected)
NextGroup ==
    /\ pc = "cursor"
    /\ \E expected \in {"", "Bracket", "Parenthesis"} :
          LET r == next_group(cursor, expected, feat)
          IN  /\ Returned("next_group", r,
                          Some(TokenGroup(r.val.del, r.val.iter, r.val.span)))
              /\ produced' = IF IsOk(r)
                              THEN Append(produced,
                                          TokenTreeFrom(TokenGroup(r.val.del, r.val.iter,
                                                                   r.val.span)))
                              ELSE produced

\* iter.extract_identifier(..), iter.expect_semicolon(), iter.expect_comma()
ExtractSimple ==
    /\ pc = "cursor"
    /\ \E p \in {"identifier", "';'", "','"} :
          LET r == extract_simple(cursor, p, feat)
          IN  /\ Returned("extract_simple", r, Some(TokenSimple(r.val)))
              /\ produced' = IF IsOk(r) THEN Append(produced, r.val) ELSE produced

\* iter.push_front(token)
PushFront ==
    /\ pc = "cursor"
    /\ pushes < MaxPush
    /\ pc' = pc
    /\ before' = cursor
    /\ cursor' = push_front(cursor, PushedToken)
    /\ handed' = Handed("push_front", "ok", None)
    /\ pushes' = pushes + 1
    /\ UNCHANGED <<inputs, attr, item, call_vars, error, err_at, sub_vars, produced>>

Next ==
    \/ Inline
    \/ ParseGlobals
    \/ ParseVerbose
    \/ ParseShort
    \/ Disambiguate
    \/ Duplicate
    \/ Return
    \/ New
    \/ Apply
    \/ NextFallible
    \/ Peek
    \/ NextGroup
    \/ ExtractSimple
    \/ PushFront

Spec == Init /\ [][Next]_vars

\* ------------------------------------------------------------------------
\* What the claims compare the program with
\* ------------------------------------------------------------------------
\* The tokens without their spans.
RECURSIVE Unspan(_)
Unspan(tokens) ==
    [i \in 1..Len(tokens) |-> Tok(tokens[i].k, tokens[i].v, Unspan(tokens[i].s), "src")]

\* The names of the identifier tokens at any depth.
RECURSIVE IdentsOf(_)
IdentsOf(tokens) ==
    UNION {IF IsIdent(tokens[i]) THEN {tokens[i].v}
           ELSE IF IsGroup(tokens[i]) THEN IdentsOf(tokens[i].s)
           ELSE {} : i \in 1..Len(tokens)}

Parsed == pc \in {"parsed", "duplicate", "done"}

Duplications == dup_def.duplications
Globals == dup_def.global_substitutions

\* The body with every parameter, at any depth, replaced by its argument.
RECURSIVE SubstParams(_, _, _)
SubstParams(body, params, args) ==
    Flatten([i \in 1..Len(body) |->
        LET t == body[i]
        IN  IF IsIdent(t) /\ \E j \in 1..Len(params) : params[j] = t.v
            THEN LET j == CHOOSE j \in 1..Len(params) : params[j] = t.v
                 IN  IF j <= Len(args) THEN args[j] ELSE <<>>
            ELSE IF IsGroup(t)
            THEN <<Tok("Group", t.v, SubstParams(t.s, params, args), t.sp)>>
            ELSE <<t>>])

\* The bracketed snippets between the parentheses of a use.
SpecArgs(paren) ==
    LET brackets == SelectSeq(paren.s, IsGroup)
    IN  [j \in 1..Len(brackets) |-> brackets[j].s]

\* The (declaration, body) pair of the name in the group, else in the globals.
SpecHas(name, pairs) == \E i \in 1..Len(pairs) : pairs[i].decl.name = name
SpecPair(name, pairs) ==
    pairs[CHOOSE i \in 1..Len(pairs) : pairs[i].decl.name = name]

\* The rewrite of a fragment with one group of pairs and the global pairs,
\* as the documentation describes it.
RECURSIVE SpecRewrite(_, _, _)
SpecRewrite(F, group, globals) ==
    IF F = <<>> THEN <<>>
    ELSE LET t == Head(F)
             pairs == group \o globals
         IN  IF IsIdent(t) /\ SpecHas(t.v, pairs)
             THEN LET pr == SpecPair(t.v, pairs)
                  IN  IF pr.decl.params = <<>>
                      THEN pr.body \o SpecRewrite(Tail(F), group, globals)
                      ELSE IF Tail(F) = <<>> THEN <<>>
                      ELSE LET snippets == SpecArgs(F[2])
                               args == [j \in 1..Len(snippets) |->
                                           SpecRewrite(snippets[j], group, globals)]
                           IN  SubstParams(pr.body, pr.decl.params, args)
                               \o SpecRewrite(Tail(Tail(F)), group, globals)
             ELSE IF IsGroup(t)
             THEN <<Tok("Group", t.v, SpecRewrite(t.s, group, globals), t.sp)>>
                  \o SpecRewrite(Tail(F), group, globals)
             ELSE <<t>> \o SpecRewrite(Tail(F), group, globals)

\* ------------------------------------------------------------------------
\* The claims
\* ------------------------------------------------------------------------
\* One duplicate of the item for the n-th substitution group.
CopyOf(n) ==
    DuplicateOne(item, Globals, Duplications[n], mod_and_postfix_sub, feat).val

C2_GlobalOnly ==
    (intent.kind = "global") =>
        /\ pc = "error" => err_at = "duplicate"
        /\ Parsed => Duplications = <<>> /\ Globals.substitutions # <<>>
        /\ pc = "done" =>
              /\ Len(copies) = 1
              /\ Unspan(output) = Unspan(SpecRewrite(item, <<>>, intent.globals))

\* A global substitution was used by the only copy.
C2_Witness ==
    /\ intent.kind = "global"
    /\ pc = "done"
    /\ Unspan(output) # Unspan(item)
    /\ output # <<>>

\* No identifier of the item is a key of the group or of the globals.
NoKeys(group) ==
    IdentsOf(item) \cap (identifiers(group) \cup identifiers(Globals)) = {}

\* C3 as stated: a pass over an item none of whose identifiers is a key
\* gives the item token for token.
C3_Identity ==
    \A n \in 1..Len(copies) :
        NoKeys(PassGroup(Duplications, n)) => Unspan(copies[n]) = Unspan(item)

\* The item with the token after the leading `mod` replaced by some identifier.
SameButModuleName(copy) ==
    /\ Len(copy) = Len(item)
    /\ IsIdent(copy[2])
    /\ \A i \in 1..Len(item) : i # 2 => Unspan(<<copy[i]>>) = Unspan(<<item[i]>>)

\* C3 amended: a pass over an item none of whose identifiers is a key gives
\* the item token for token, except for the name of the module when the
\* module is being disambiguated.
C3_IdentityButModule ==
    \A n \in 1..Len(copies) :
        NoKeys(PassGroup(Duplications, n)) =>
            IF mod_and_postfix_sub.some
            THEN SameButModuleName(copies[n])
            ELSE Unspan(copies[n]) = Unspan(item)

\* A pass copied an item with nested groups and no key.
C3_Witness ==
    /\ Len(copies) >= 1
    /\ NoKeys(PassGroup(Duplications, 1))
    /\ Globals.substitutions # <<>>
    /\ Duplications # <<>>
    /\ \E i \in 1..Len(item) : IsGroup(item[i]) /\ item[i].s # <<>>
    /\ ~mod_and_postfix_sub.some

\* The input of Substitution::new and the arguments of apply.
Params == sub_input.arguments
Body == sub_input.stream

\* C4: applying a substitution declared with k parameters to k arguments
\* gives the declared body with every parameter, also inside the nested
\* groups of the body, replaced by its argument, and the other tokens and
\* the delimiters unchanged; `refs(type)` with the bodies `&type` and
\* `&mut type` turns `refs([i32])` into `&i32` and `&mut i32`.
C4_ApplyReplacesParameters ==
    /\ (pc = "applied" /\ Len(sub_arguments) = Len(Params)) =>
          /\ IsOk(applied)
          /\ Unspan(applied.val) = Unspan(SubstParams(Body, Params, sub_arguments))
    /\ (/\ pc = "done"
        /\ intent = Invocation("short",
                        ShortPayload(<<DeclRefs>>,
                            <<<<<<Punct("&"), Ident("type")>>>>,
                              <<<<Punct("&"), Ident("mut"), Ident("type")>>>>>>, TRUE),
                        <<>>, intent.groups)
        /\ item = Use(<<Bracket(<<Ident("i32")>>)>>)) =>
          copies = <<<<Punct("&"), Ident("i32")>>,
                     <<Punct("&"), Ident("mut"), Ident("i32")>>>>

\* Two arguments were put in place of two parameters, one inside nested groups.
C4_Witness ==
    /\ pc = "applied"
    /\ Len(Params) = 2
    /\ Len(sub_arguments) = 2
    /\ sub_arguments[1] # sub_arguments[2]
    /\ \E i \in 1..Len(Body) : IsGroup(Body[i]) /\ "u" \in IdentsOf(Body[i].s)
    /\ IsOk(applied)
    /\ applied.val # Body

\* C4: the use `refs([i32])` was rewritten in two duplicates.
C4_WitnessUse ==
    /\ pc = "done"
    /\ item = Use(<<Bracket(<<Ident("i32")>>)>>)
    /\ copies = <<<<Punct("&"), Ident("i32")>>, <<Punct("&"), Ident("mut"), Ident("i32")>>>>

\* A bracketed snippet of the shape `mod` name `{..}` at any depth.
RECURSIVE HasModuleSnippet(_)
HasModuleSnippet(tokens) ==
    \E i \in 1..Len(tokens) :
        /\ IsGroup(tokens[i])
        /\ \/ tokens[i].v = "Bracket" /\ get_module_name(tokens[i].s).some
           \/ HasModuleSnippet(tokens[i].s)

\* The pairs the n-th pass is written to use.
IntentGroup(n) == IF intent.groups = <<>> THEN <<>> ELSE intent.groups[n]

\* C5: at a use of a parameterized identifier every bracketed argument is
\* rewritten once, with the substitution group of the duplicate being made,
\* and then put in place of its parameter: `refs([refs([i32])])` with
\* refs(type) -> `&type` gives `& & i32`.
C5_ArgumentsRewrittenOnce ==
    /\ (/\ pc = "done"
        /\ intent.kind # "other"
        /\ "refs" \in IdentsOf(item)
        /\ ~HasModuleSnippet(item)) =>
          \A n \in 1..Len(copies) :
              Unspan(copies[n]) =
                  Unspan(SpecRewrite(item, IntentGroup(n), intent.globals))
    /\ (/\ pc = "done"
        /\ intent.kind = "short"
        /\ intent.groups = <<<<Pair(DeclRefs, <<Punct("&"), Ident("type")>>)>>>>
        /\ item = Use(<<Bracket(Use(<<Bracket(<<Ident("i32")>>)>>))>>)) =>
          output = <<Punct("&"), Punct("&"), Ident("i32")>>

\* An argument that uses the identifiers of the group was rewritten in two
\* duplicates with different groups.
C5_Witness ==
    /\ pc = "done"
    /\ item = Use(<<Bracket(<<Ident("a"), Paren(<<Ident("g")>>)>>), Comma>>)
    /\ Len(copies) = 2
    /\ copies[1] # copies[2]
    /\ "a" \notin IdentsOf(output)
    /\ "refs" \notin IdentsOf(output)

\* The uses of `refs` with no argument and with two arguments.
BadUses == {Use(<<>>), Use(<<Bracket(<<Ident("x")>>), Comma, Bracket(<<Ident("y")>>)>>)}

\* The number of bracketed arguments of the use.
UseArguments == Len(SelectSeq(item[2].s, IsGroup))

\* `refs` is declared with parameters, by the group of the n-th pass or by
\* the globals and not by both.
RefsDeclared(n) ==
    /\ LookupCase(PassGroup(Duplications, n), Globals, "refs") = "one"
    /\ LookupSubst(PassGroup(Duplications, n), Globals, "refs").arg_count > 0

RefsParameters(n) == LookupSubst(PassGroup(Duplications, n), Globals, "refs").arg_count

\* C6: apply with J arguments for K parameters, J # K, returns an error
\* that names K and J, and no tokens; a use with an empty argument list or
\* with more arguments than parameters fails.
C6_Arity ==
    /\ (pc = "applied" /\ Len(sub_arguments) # Len(Params)) =>
          /\ applied.st = "err"
          /\ applied.err.info = <<Len(Params), Len(sub_arguments)>>
          /\ applied.val = <<>>
    /\ (/\ item \in BadUses
        /\ Parsed
        /\ RefsDeclared(1)
        /\ RefsParameters(1) # UseArguments) =>
          /\ pc # "done"
          /\ copies = <<>>
          /\ output = <<>>
    /\ (/\ item \in BadUses
        /\ pc = "error"
        /\ err_at = "duplicate"
        /\ RefsDeclared(pass)
        /\ RefsParameters(pass) # UseArguments) =>
          /\ error.msg = "Expected {} substitution arguments but got {}"
          /\ error.info = <<RefsParameters(pass), UseArguments>>

\* apply was given more arguments than parameters and returned the error.
C6_Witness ==
    /\ pc = "applied"
    /\ Len(sub_arguments) > Len(Params)
    /\ Len(Params) > 0
    /\ applied.st = "err"

\* C6: the use `refs()` of an identifier with a parameter failed.
C6_WitnessUse ==
    /\ item = Use(<<>>)
    /\ pc = "error"
    /\ err_at = "duplicate"
    /\ error.info = <<1, 0>>

\* The (identifier, number of parameters) pairs a written group declares.
PairIds(pairs) ==
    {<<pairs[i].decl.name, Len(pairs[i].decl.params)>> : i \in 1..Len(pairs)}

\* A written group declares other pairs than the first written group.
DiffersFromFirst(groups) == \E k \in 1..Len(groups) : PairIds(groups[k]) # PairIds(groups[1])

\* C7: in the verbose syntax a group whose (identifier, number of
\* parameters) pairs differ from those of the first group, an identifier
\* missing, added, or with another number of parameters, makes
\* parse_invocation fail.
C7_VerboseConsistency ==
    (intent \in VerboseInvocations /\ DiffersFromFirst(intent.groups)) => ~Parsed

\* C8: all the per-duplicate groups of a definition returned by
\* parse_invocation define the same identifiers with the same numbers of
\* parameters.
C8_SameIdentifiers ==
    Parsed =>
        \A k \in 1..Len(Duplications) :
            identifiers_with_args(Duplications[k]) = identifiers_with_args(Duplications[1])

\* An identifier is declared by the globals and by a per-duplicate group.
Ambiguous ==
    \E k \in 1..Len(Duplications) :
        identifiers(Globals) \cap identifiers(Duplications[k]) # {}

\* C9: an invocation declaring an identifier both globally and in a
\* per-duplicate group fails, whatever the item, before a token of the item
\* is rewritten.
C9_AmbiguityRejected ==
    Ambiguous => (pc # "done" /\ copies = <<>>)

\* The parameters of the declaration as arguments: applying the substitution
\* to them gives the declared body back.
ParamsAsArguments(decl) == [j \in 1..Len(decl.params) |-> <<Ident(decl.params[j])>>]

\* The group maps the identifiers of the pairs, in their order, to the bodies.
GroupIs(group, pairs) ==
    /\ identifiers_ordered(group) = [i \in 1..Len(pairs) |-> pairs[i].decl.name]
    /\ identifiers(group) = {pairs[i].decl.name : i \in 1..Len(pairs)}
    /\ \A i \in 1..Len(pairs) :
          LET subst == substitution_of(group, pairs[i].decl.name)
          IN  /\ argument_count(subst) = Len(pairs[i].decl.params)
              /\ Unspan(apply(subst, ParamsAsArguments(pairs[i].decl)).val)
                     = Unspan(pairs[i].body)

\* C10: the short syntax `id1 .. idm; [s11]..[s1m]; ..; [sn1]..[snm]`, with
\* or without the last `;`, parses to n per-duplicate groups in the order
\* written, the k-th mapping id_i to s_ki; Scenario A gives the groups
\* (int_type -> u8, max_value -> 255) and (int_type -> u16, max_value -> 65535).
C10_ShortSyntax ==
    /\ (intent \in ShortInvocations) =>
          /\ pc = "error" => err_at \notin {"start", "globals"}
          /\ pc # "hang"
          /\ Parsed =>
                /\ Globals.substitutions = <<>>
                /\ Len(Duplications) = Len(intent.groups)
                /\ \A k \in 1..Len(intent.groups) :
                      GroupIs(Duplications[k], intent.groups[k])
    /\ (intent = ScenarioA /\ Parsed) =>
          /\ Len(Duplications) = 2
          /\ apply_simple(substitution_of(Duplications[1], "int_type")).val = <<Ident("u8")>>
          /\ apply_simple(substitution_of(Duplications[1], "max_value")).val = <<Literal("255")>>
          /\ apply_simple(substitution_of(Duplications[2], "int_type")).val = <<Ident("u16")>>
          /\ apply_simple(substitution_of(Duplications[2], "max_value")).val
                 = <<Literal("65535")>>

\* A short invocation of two identifiers and two different groups, without
\* the last `;`, was parsed.
C10_Witness ==
    /\ intent \in ShortInvocations
    /\ Parsed
    /\ Len(Duplications) = 2
    /\ Len(identifiers_ordered(Duplications[1])) = 2
    /\ Duplications[1] # Duplications[2]
    /\ attr[Len(attr)] # Semi

\* The identifier row of the short syntax, as parse_invocation hands it to
\* validate_short_get_identifiers.
ShortIdentifierRow ==
    validate_short_get_identifiers(
        ShortChain(validate_global_substitutions(attr).val.extra,
                   validate_global_substitutions(attr).rest)).val

\* The short syntax was parsed.
ParsedShort == Parsed /\ extra.some

\* C11: in the short syntax a row with fewer or with more bracketed
\* substitutions than identifiers were declared makes parse_invocation
\* fail, and no definition is returned in which a group lacks the
\* substitution of a declared identifier.
C11_ShortCount ==
    /\ (intent \in MismatchInvocations) =>
          /\ ~Parsed
          /\ pc \notin {"inline", "start", "globals"} =>
                 (pc = "error" /\ err_at = "globals" /\ output = <<>>)
    /\ ParsedShort =>
          \A k \in 1..Len(Duplications) :
              /\ identifiers(Duplications[k])
                     = {ShortIdentifierRow[i].ident : i \in 1..Len(ShortIdentifierRow)}
              /\ Len(identifiers_ordered(Duplications[k])) = Len(ShortIdentifierRow)

\* A short invocation with a mismatched row was rejected.
C11_Witness ==
    /\ intent \in MismatchInvocations
    /\ pc = "error"
    /\ err_at = "globals"

\* C12: an invocation without global substitutions that gives no
\* substitution group, the empty invocation or an identifier row followed by
\* nothing (`name;`), is rejected: no definition without global
\* substitutions and without groups is returned.
C12_GroupRequired ==
    (Parsed /\ Globals.substitutions = <<>>) => Len(Duplications) >= 1

\* The invocation with every nested invocation replaced by its expansion,
\* and the nested invocations of the expansion by theirs.
RECURSIVE Expand(_, _)
Expand(tokens, f) ==
    IF tokens = <<>> THEN Ok(<<>>, <<>>)
    ELSE IF IsPunct(tokens[1]) /\ is_nested_invocation(tokens[1])
    THEN Bind(invoke_nested(Tail(tokens), f), LAMBDA nested :
             IF ~IsOk(nested) THEN nested
             ELSE Expand(nested.val \o nested.rest, f))
    ELSE Bind(Expand(Tail(tokens), f), LAMBDA rest :
             IF ~IsOk(rest) THEN rest
             ELSE Ok(<<tokens[1]>> \o rest.val, <<>>))

HasNested(tokens) ==
    \E i \in 1..Len(tokens) : IsPunct(tokens[i]) /\ is_nested_invocation(tokens[i])

MarkerArguments(n) == [j \in 1..n |-> <<Literal(ToString(j))>>]

\* The two groups define the same identifiers in the same order with the
\* same parameter counts and the same substitutions, source positions aside.
SameGroup(g, h) ==
    /\ identifiers_ordered(g) = identifiers_ordered(h)
    /\ identifiers(g) = identifiers(h)
    /\ \A id \in identifiers(g) :
          /\ argument_count(substitution_of(g, id)) = argument_count(substitution_of(h, id))
          /\ Unspan(apply(substitution_of(g, id),
                          MarkerArguments(argument_count(substitution_of(g, id)))).val)
                 = Unspan(apply(substitution_of(h, id),
                                MarkerArguments(argument_count(substitution_of(g, id)))).val)

SameDefinition(d, e) ==
    /\ SameGroup(d.global_substitutions, e.global_substitutions)
    /\ Len(d.duplications) = Len(e.duplications)
    /\ \A k \in 1..Len(d.duplications) : SameGroup(d.duplications[k], e.duplications[k])

\* parse_invocation of the flattened invocation.
FlattenedDefinition ==
    Bind(Expand(attr, feat), LAMBDA flat :
        IF ~IsOk(flat) THEN flat ELSE parse_invocation(flat.val, feat))

\* C13: an invocation with nested invocations parses to the same
\* definition as the invocation in which every nested invocation is replaced
\* by its expansion: the same groups in the same order when one of them is
\* accepted, and both are rejected otherwise.
C13_NestedAsFlattened ==
    (HasNested(attr) /\ pc \in {"parsed", "error"} /\ err_at \in {"", "start", "globals"}) =>
        IF Parsed
        THEN IsOk(FlattenedDefinition) /\ SameDefinition(dup_def, FlattenedDefinition.val)
        ELSE ~IsOk(FlattenedDefinition)

\* A nested invocation that is accepted gives the groups of its flattened
\* form, in the order written.
NestedExamplesAsWritten ==
    (intent \in NestedInvocations /\ Parsed) =>
        /\ Len(Duplications) = Len(intent.groups)
        /\ \A k \in 1..Len(intent.groups) : GroupIs(Duplications[k], intent.groups[k])

\* The call of the state as one function.
WholeCall ==
    IF macro = "duplicate" THEN duplicate(stream, feat) ELSE duplicate_item(attr, item, feat)

\* C14: when a stage fails (the parse, a nested invocation in it, the
\* module disambiguation, or the rewrite of a duplicate, a later one after
\* rewritten ones included) the call returns the error of that stage
\* and no output tokens; tokens are returned by a call without error only.
C14_ErrorWithoutOutput ==
    /\ pc = "error" =>
          /\ output = <<>>
          /\ result = <<>>
          /\ error # NoErr
          /\ err_at \in {"inline", "start", "globals", "parsed", "duplicate"}
          /\ WholeCall.st = "err"
          /\ WholeCall.err = error
    /\ output # <<>> => (pc = "done" /\ error = NoErr /\ IsOk(WholeCall))

\* A later duplicate fails after the first one was rewritten.
C14_Witness == pc = "error" /\ err_at = "duplicate" /\ copies # <<>> /\ copies[1] # <<>>

\* The module is being disambiguated: the feature is enabled, the item is a
\* module and the first group has no substitution for the name of the module.
ModuleApplies ==
    /\ feat
    /\ get_module_name(item).some
    /\ Duplications # <<>>
    /\ ~HasKey(Duplications[1], get_module_name(item).ident)

\* The tokens the group substitutes for the identifier.
ValueOf(group, id) ==
    apply(substitution_of(group, id),
          MarkerArguments(argument_count(substitution_of(group, id)))).val

\* The group substitutes exactly one identifier token for the identifier.
SingleIdent(group, id) ==
    /\ HasKey(group, id)
    /\ Len(ValueOf(group, id)) = 1
    /\ IsIdent(ValueOf(group, id)[1])

Qualifies(id) == \A k \in 1..Len(Duplications) : SingleIdent(Duplications[k], id)

DeclarationOrder == identifiers_ordered(Duplications[1])

SomeQualifies == \E i \in 1..Len(DeclarationOrder) : Qualifies(DeclarationOrder[i])

FirstQualifying ==
    DeclarationOrder[CHOOSE i \in 1..Len(DeclarationOrder) :
                         /\ Qualifies(DeclarationOrder[i])
                         /\ \A j \in 1..(i - 1) : ~Qualifies(DeclarationOrder[j])]

\* The name the module gets in the n-th duplicate.
ModuleNameOf(n, id) ==
    PostfixName(get_module_name(item).ident,
                to_snake_case(ValueOf(Duplications[n], id)[1].v))

AfterParse == pc \in {"duplicate", "done"} \/ (pc = "error" /\ err_at \in {"parsed", "duplicate"})

\* C15: when a module is disambiguated, the identifier chosen is the first
\* one, in the order the first group declares them, for which every group
\* substitutes exactly one identifier token; the module of each duplicate
\* is named name_snake(value of that identifier in the group of the
\* duplicate); when no identifier qualifies the call fails.
C15_FirstSimpleIdentifier ==
    (ModuleApplies /\ AfterParse) =>
        IF SomeQualifies
        THEN /\ ~(pc = "error" /\ err_at = "parsed")
             /\ mod_and_postfix_sub.some
             /\ mod_and_postfix_sub.postfix = FirstQualifying
             /\ \A n \in 1..Len(copies) :
                   /\ Len(copies[n]) >= 2
                   /\ copies[n][1] = item[1]
                   /\ IsIdent(copies[n][2])
                   /\ copies[n][2].v = ModuleNameOf(n, FirstQualifying)
        ELSE pc = "error" /\ err_at = "parsed" /\ output = <<>>

\* The n-th duplicate as it is made without module disambiguation.
PlainCopy(n) ==
    DuplicateOne(item, Globals, PassGroup(Duplications, n), NoModule, feat)

IsKey(n, name) == HasKey(PassGroup(Duplications, n), name) \/ HasKey(Globals, name)

\* C16: module disambiguation replaces the name token after the leading
\* `mod` and nothing else: every other token of the duplicate is the one
\* the rewrite without disambiguation gives, and the name of the module
\* where it occurs in the body stays as written.
C16_OnlyNameReplaced ==
    mod_and_postfix_sub.some =>
        \A n \in 1..Len(copies) :
            /\ IsOk(PlainCopy(n))
            /\ Len(copies[n]) = Len(PlainCopy(n).val)
            /\ \A i \in 1..Len(copies[n]) : i # 2 => copies[n][i] = PlainCopy(n).val[i]
            /\ IsIdent(copies[n][2])
            /\ copies[n][2].v # item[2].v
            /\ copies[n][2].sp = item[2].sp
            /\ (~IsKey(n, item[2].v) /\ item[2].v \in IdentsOf(item[3].s)) =>
                   (item[2].v \in IdentsOf(copies[n][3].s)
                    /\ copies[n][2].v \notin IdentsOf(copies[n][3].s))

\* A module whose body names the module was duplicated twice.
C16_Witness ==
    /\ mod_and_postfix_sub.some
    /\ pc = "done"
    /\ Len(copies) = 2
    /\ item[2].v \in IdentsOf(item[3].s)
    /\ copies[1][3] # item[3]

\* C17: when a module is disambiguated, two duplicates made with
\* different substitution groups get different module names.
C17_UniqueModuleNames ==
    (mod_and_postfix_sub.some /\ pc = "done") =>
        \A i, j \in 1..Len(copies) :
            (i < j /\ Duplications[i] # Duplications[j]) => copies[i][2].v # copies[j][2].v

\* The item is `mod`, a name and a brace group, followed by anything.
IsModuleItem ==
    /\ Len(item) >= 3
    /\ item[1] = Ident("mod")
    /\ IsIdent(item[2])
    /\ IsGroup(item[3]) /\ item[3].v = "Brace"

\* The first group has no substitution for the name of the module.
NeedsModuleName ==
    /\ IsModuleItem
    /\ Duplications # <<>>
    /\ ~HasKey(Duplications[1], item[2].v)

\* C18: a module name is made only for an item that is `mod`, a name and
\* a brace group and only when the first group has no substitution for the
\* name; when the groups substitute the name, when the item is not a
\* module, or when there is no group, the disambiguation does nothing and
\* does not fail, and every duplicate is the one ordinary substitution gives.
C18_OnlyUnnamedModules ==
    /\ mod_and_postfix_sub.some => (NeedsModuleName /\ mod_and_postfix_sub.ident = item[2].v)
    /\ (AfterParse /\ ~NeedsModuleName) =>
          /\ ~(pc = "error" /\ err_at = "parsed")
          /\ mod_and_postfix_sub = NoModule
          /\ \A n \in 1..Len(copies) : copies[n] = PlainCopy(n).val
    /\ (AfterParse /\ feat /\ NeedsModuleName /\ pc # "error") => mod_and_postfix_sub.some

\* The groups substitute the name of the module, with the feature enabled.
C18_Witness ==
    /\ feat
    /\ pc = "done"
    /\ IsModuleItem
    /\ Len(copies) = 2
    /\ HasKey(Duplications[1], item[2].v)
    /\ copies[1][2] = Ident("X")
    /\ copies[2][2] = Ident("Y")

\* The pairs of a verbose group: identifier, optional parameter list, body.
RECURSIVE PairsOf(_)
PairsOf(tokens) ==
    IF tokens = <<>> THEN <<>>
    ELSE IF Len(tokens) < 2 THEN <<tokens>>
    ELSE IF Len(tokens) >= 3 /\ IsGroup(tokens[2]) /\ tokens[2].v = "Parenthesis"
    THEN <<SubSeq(tokens, 1, 3)>> \o PairsOf(SubSeq(tokens, 4, Len(tokens)))
    ELSE <<SubSeq(tokens, 1, 2)>> \o PairsOf(SubSeq(tokens, 3, Len(tokens)))

Reversed(s) == [i \in 1..Len(s) |-> s[Len(s) - i + 1]]

\* The invocation with the pairs of its g-th group in the reverse order.
PermuteGroup(tokens, g) ==
    [tokens EXCEPT ![g] = Tok("Group", tokens[g].v,
                              Flatten(Reversed(PairsOf(tokens[g].s))), tokens[g].sp)]

\* What a call gives: tokens, or that it failed.
Outcome(r) == IF IsOk(r) THEN <<"ok", Unspan(r.val)>> ELSE <<r.st>>

\* The invocations that are a list of verbose groups.
PermutedInvocations == VerboseInvocations \cup ThreePairInvocations

SamePermuted(g) ==
    Outcome(duplicate_impl(PermuteGroup(attr, g), item, feat)) = Outcome(WholeCall)

NameFromOrder(g) ==
    feat /\ ((g = 1 /\ NeedsModuleName) \/ HasModuleSnippet(item))

StateOutcome ==
    IF pc = "done" THEN <<"ok", Unspan(output)>>
    ELSE IF pc = "error" THEN <<"err">>
    ELSE <<"hang">>

\* The stream is a bracketed invocation followed by the code to duplicate.
InlineForm == macro = "duplicate" /\ stream # <<>> /\ IsGroup(stream[1]) /\ stream[1].v = "Bracket"

\* C20: duplicate!{ [P] B } hands P, the content of the first bracket
\* group, and B, all the tokens after it unchanged and in order, to
\* duplicate_impl, and so gives what #[duplicate_item(P)] gives on B: the
\* same tokens, or an error in both.
C20_InlineAsItem ==
    InlineForm =>
        /\ pc \notin {"inline", "error"} => (attr = stream[1].s /\ item = Tail(stream))
        /\ pc \in {"done", "error", "hang"} =>
               StateOutcome = Outcome(duplicate_item(stream[1].s, Tail(stream), feat))


\* ------------------------------------------------------------------------
\* C21: a second rewrite of the output
\* ------------------------------------------------------------------------
\* The identifiers the invocation substitutes.
InvocationKeys ==
    identifiers(Globals) \cup UNION {identifiers(Duplications[k]) : k \in 1..Len(Duplications)}

\* No substitution of the definition has an identifier of the invocation in
\* its body.
BodiesKeyFree ==
    /\ \A id \in identifiers(Globals) : IdentsOf(ValueOf(Globals, id)) \cap InvocationKeys = {}
    /\ \A k \in 1..Len(Duplications) : \A id \in identifiers(Duplications[k]) :
          IdentsOf(ValueOf(Duplications[k], id)) \cap InvocationKeys = {}

SingleGroup == pc = "done" /\ Len(Duplications) <= 1 /\ BodiesKeyFree

\* The output rewritten once more with the same substitutions.
SecondRewrite == duplicate_and_substitute(output, Globals, Duplications, feat)

C21_ModuleWitness ==
    /\ SingleGroup /\ mod_and_postfix_sub.some
    /\ IsOk(SecondRewrite)
    /\ Unspan(SecondRewrite.val) # Unspan(output)


\* ------------------------------------------------------------------------
\* C22: a parameter named twice
\* ------------------------------------------------------------------------
\* C22: a parameter list that names a parameter twice is rejected by the
\* parser, in short, verbose and global substitutions alike.
C22_ParametersNamedOnce ==
    (intent \in RepeatedParamInvocations) => ~Parsed


\* ------------------------------------------------------------------------
\* C23: the groups of the output
\* ------------------------------------------------------------------------
\* Some group, at any depth, has the source position of the call site.
RECURSIVE HasCallSiteGroup(_)
HasCallSiteGroup(tokens) ==
    \E i \in 1..Len(tokens) :
        /\ IsGroup(tokens[i])
        /\ tokens[i].sp = "call_site" \/ HasCallSiteGroup(tokens[i].s)

\* The delimiters of the groups of the top level, in order.
Delimiters(tokens) ==
    [i \in 1..Len(SelectSeq(tokens, IsGroup)) |-> SelectSeq(tokens, IsGroup)[i].v]

\* C23: every delimited group of the fragment is emitted with its
\* delimiter and its source position; no group of the output has the
\* position of the call site.
C23_GroupPositions ==
    (pc = "done" /\ IdentsOf(item) \cap InvocationKeys = {}) =>
        /\ \A n \in 1..Len(copies) : Delimiters(copies[n]) = Delimiters(item)
        /\ ~HasCallSiteGroup(output)


\* The delimiters are kept where the positions are not.
C23_DelimitersKept ==
    (pc = "done" /\ IdentsOf(item) \cap InvocationKeys = {}) =>
        \A n \in 1..Len(copies) : Delimiters(copies[n]) = Delimiters(item)


\* ------------------------------------------------------------------------
\* C24..C26, C28: the token cursor
\* ------------------------------------------------------------------------
\* C24: no token a TokenIter hands out, with next_fallible, peek,
\* extract_simple or next_group and after any sequence of calls, is a group
\* with the None delimiter.
C24_NoNoneGroup ==
    (pc = "cursor" /\ handed.token.some /\ ~handed.token.v.simple) =>
        handed.token.v.del # "None"


\* The tokens start with a nested invocation: duplicate or substitute, `!`.
IsNestedStart(tokens) ==
    /\ Len(tokens) >= 2
    /\ IsIdent(tokens[1]) /\ tokens[1].v \in {"duplicate", "substitute"}
    /\ is_punct(tokens[2], "!")

\* The token trees the tokens stand for: a group without delimiters stands
\* for its content and a nested invocation that expands for its expansion.
RECURSIVE Processed(_, _)
Processed(tokens, f) ==
    IF tokens = <<>> THEN <<>>
    ELSE IF IsGroup(Head(tokens)) /\ Head(tokens).v = "None"
    THEN Processed(Head(tokens).s, f) \o Processed(Tail(tokens), f)
    ELSE IF IsNestedStart(tokens)
    THEN Bind(invoke_nested_inline(IF Len(tokens) >= 3 THEN <<tokens[3]>> ELSE <<>>,
                                   tokens[1].v = "duplicate", f),
              LAMBDA expansion :
                  IF IsOk(expansion)
                  THEN Processed(expansion.val, f)
                       \o Processed(SubSeq(tokens, 4, Len(tokens)), f)
                  ELSE <<tokens[1], tokens[2]>> \o Processed(Tail(Tail(tokens)), f))
    ELSE <<Head(tokens)>> \o Processed(Tail(tokens), f)

\* What is left in the TokenIter.
Left(it) == Processed(to_token_stream(it), feat)

\* C25: when a method of TokenIter returns an error no token has been
\* consumed and nothing is partially spliced: what the TokenIter still has
\* to produce is what it had before the call, also when the error is that
\* of a nested invocation.
C25_ErrorConsumesNothing ==
    (pc = "cursor" /\ handed.st = "err") => Left(cursor) = Left(before)

\* The errors of a TokenIter over tokens without the identifiers duplicate
\* and substitute consume nothing.
PlainErrorConsumesNothing ==
    (pc = "cursor" /\ handed.st = "err" /\ IdentsOf(stream) \cap {"duplicate", "substitute"} = {}) =>
        Left(cursor) = Left(before)


\* peek gives the token next_fallible gives next, and None when it gives None.
PeekIsNext ==
    (IsOk(peek(cursor, feat)) /\ IsOk(next_fallible(cursor, feat))) =>
        peek(cursor, feat).val = next_fallible(cursor, feat).val

\* The token peek has shown is the one taken after it.
PeekThenNext ==
    Bind(peek(cursor, feat), LAMBDA front :
        (IsOk(front) /\ IsOk(next_fallible(front.rest, feat))) =>
            next_fallible(front.rest, feat).val = front.val)

\* A second peek gives the token of the first.
PeekTwice ==
    Bind(peek(cursor, feat), LAMBDA front :
        (IsOk(front) /\ IsOk(peek(front.rest, feat))) =>
            peek(front.rest, feat).val = front.val)

\* The token given back with push_front is the next one produced.
PushedIsNext ==
    (handed.op = "push_front" /\ IsOk(next_fallible(cursor, feat))) =>
        next_fallible(cursor, feat).val = Some(PushedToken)

\* C26: in every state of a TokenIter peek returns the token next_fallible
\* returns next, and None exactly when next_fallible returns None; a second
\* peek returns the same token; a token given back with push_front is the
\* next one produced.
C26_PeekAgreesWithNext ==
    (pc = "cursor") => PeekIsNext /\ PeekThenNext /\ PeekTwice /\ PushedIsNext


\* Every nested invocation of the tokens expands.
AllExpand(tokens) ==
    \A i \in 1..Len(Processed(tokens, feat)) :
        ~IsNestedStart(SubSeq(Processed(tokens, feat), i, Len(Processed(tokens, feat))))

\* An identifier duplicate or substitute, at position i, is followed by a
\* token that is not punctuation.
NameBeforeOther(tokens) ==
    \E i \in 1..(Len(tokens) - 1) :
        /\ IsIdent(tokens[i]) /\ tokens[i].v \in {"duplicate", "substitute"}
        /\ ~IsPunct(tokens[i + 1])

\* C28: the TokenIter loses no token: the tokens produced so far followed by
\* the ones left are the tokens it was made for, in order, groups without
\* delimiters opened and nested invocations replaced by their expansion; an
\* identifier duplicate or substitute that no `!` follows is produced as it
\* is, and so is the token after it.
C28_NoTokenLost ==
    (pc = "cursor" /\ pushes = 0 /\ AllExpand(stream)) =>
        produced \o Left(cursor) = Processed(stream, feat)

\* No token is lost but the one after duplicate or substitute.
NoOtherTokenLost ==
    (pc = "cursor" /\ pushes = 0 /\ AllExpand(stream) /\ ~NameBeforeOther(stream)) =>
        produced \o Left(cursor) = Processed(stream, feat)


\* ------------------------------------------------------------------------
\* C27: tokens left over in a verbose group
\* ------------------------------------------------------------------------
\* C27: a verbose group is accepted only if all of its tokens form
\* identifier, optional parameter list, bracketed substitution pairs: an
\* identifier without a substitution, a `;` between pairs and any token left
\* over make the invocation fail, and never is a definition returned for
\* which the remaining tokens were dropped.
C27_VerboseGroupWhole ==
    (intent \in LeftoverInvocations) => ~Parsed


\* ------------------------------------------------------------------------
\* C29: termination of parse_invocation
\* ------------------------------------------------------------------------
\* C29: parse_invocation returns for every finite invocation: each turn of
\* the loops over the groups consumes a token or leaves the loop, so no call
\* runs forever.
C29_ParseTerminates ==
    (macro \in {"duplicate_item", "duplicate"}) => pc # "hang"


\* ------------------------------------------------------------------------
\* C30: module disambiguation and argument snippets
\* ------------------------------------------------------------------------
\* The errors of disambiguate_module and find_simple.
DisambiguationErrors ==
    {"Duplicating the module without giving each duplicate a unique name.",
     "Was unable to find a suitable substitution identifier to postfix on the module's name.",
     "panicked: called Option::unwrap on a None value"}

\* The item is not a module and has an argument snippet `mod name {..}`.
ModuleSnippetOnly ==
    /\ intent.kind # "other"
    /\ ~get_module_name(item).some
    /\ HasModuleSnippet(item)

\* C30: module disambiguation is applied to the top-level fragment only: the
\* rewrite of a bracketed argument of a parameterized identifier renames no
\* module and raises no disambiguation error, also when the argument has
\* the shape `mod name {..}`.
C30_SnippetNotDisambiguated ==
    ModuleSnippetOnly =>
        /\ pc = "error" => error.msg \notin DisambiguationErrors
        /\ pc = "done" =>
              \A n \in 1..Len(copies) :
                  Unspan(copies[n]) = Unspan(SpecRewrite(item, IntentGroup(n), intent.globals))

====
